---- MODULE Spec2Model ----
(***************************************************************************)
(* Production balancing engine of the Satisfactory production tracker:     *)
(* ResourceNode / Facility / Base (models.py) and ProductionGraph          *)
(* (production_graph.py), with the tracker handlers of main.py that drive  *)
(* them.                                                                   *)
(*                                                                         *)
(* Numbers.  The program computes with Python floats and rounds through    *)
(* Decimal(str(value)).quantize(..., ROUND_HALF_UP).  The model computes   *)
(* with exact decimal fixed point:                                         *)
(*   clock speeds       thousandths of a percent   (100.0 %  = 100000)     *)
(*   miner / item rates whole items per minute     (30.0     = 30)         *)
(*   node output_rate   1/200000 items per minute  (60.0     = 12000000)   *)
(*   adjusted rates     1/100000 items per minute  (15.0     = 1500000)    *)
(*   totals (2 places)  hundredths                 (60.00    = 6000)       *)
(*   ratio (4 places)   ten-thousandths            (0.5      = 5000)       *)
(* Binary floating point error below the rounding step is not modelled.    *)
(***************************************************************************)
EXTENDS Integers, Sequences, FiniteSets, TLC

VARIABLES
    bases,             \* ProductionGraph.bases: ordered dict base_id -> Base
    unlinked_nodes,    \* ProductionGraph.unlinked_nodes: ordered dict node_id -> ResourceNode
    recipes,           \* GameData.recipes: list of Recipe
    next_base_id,      \* GameData.next_base_id
    next_node_id,      \* GameData.next_node_id
    next_facility_id,  \* GameData.next_facility_id
    returned           \* the query whose result the tracker is showing, its arguments and
                       \* what it returned; None once the tracker moved on

vars == <<bases, unlinked_nodes, recipes, next_base_id, next_node_id,
          next_facility_id, returned>>

----------------------------------------------------------------------------
(* Bounds of the model *)

MaxBases == 2        \* bases ever created
MaxNodes == 2        \* resource nodes ever created (graph and aggregation)
MaxFacilities == 2   \* facilities ever created (aggregation)
MaxUnits == 1        \* nodes, and facilities, ever created where single entities are studied
MaxItems == 1        \* longest item list that set_input_item / set_output_item may still extend
MaxRecipes == 1      \* recipes added to the catalog after construction
MaxIds == 4          \* identifiers handed out by each counter of GameData
MaxStock == 3        \* largest stored quantity of an item, either sign
MaxCalls == 2        \* longest sequence of update_storage calls applied to a ledger at once
Limb == 15           \* bits taken at once by the long arithmetic on float mantissas

----------------------------------------------------------------------------
(* Fixed point units *)

OUTPUT_DEN == 200000       \* node output_rate unit: 1/200000 (purity halves, clock/100)
ADJUST_DEN == 100000       \* adjusted rate unit: 1/100000 (rate * clock/100)
CENTS == 100               \* two decimal places
RATIO_DEN == 10000         \* four decimal places

MIN_CLOCK == 1             \* 0.001 %
MAX_CLOCK == 250000        \* 250 %
DEFAULT_CLOCK == 100000    \* 100.0 %
Prec == 53                 \* bits of the mantissa of a Python float

Abs(n) == IF n < 0 THEN 0 - n ELSE n
Min(a, b) == IF a < b THEN a ELSE b
Max(a, b) == IF a > b THEN a ELSE b

(* ProductionGraph.round_float: Decimal quantize with ROUND_HALF_UP, i.e.  *)
(* nearest, ties away from zero.  value = n / d in the target unit, d > 0. *)
round_float(n, d) ==
    LET q == Abs(n) \div d
        r == Abs(n) % d
        m == IF 2 * r >= d THEN q + 1 ELSE q
    IN  IF n < 0 THEN 0 - m ELSE m

(* a * w / (ADJUST_DEN * RATIO_DEN / CENTS) as quotient q and remainder r  *)
(* over d: output_rate * (1 - production_ratio) in hundredths, for an      *)
(* adjusted rate a >= 0 and w = RATIO_DEN - production_ratio >= 0.  Long   *)
(* multiplication in two limbs keeps every intermediate below 2^31.        *)
CutAmount(a, w) ==
    LET d   == (ADJUST_DEN * RATIO_DEN) \div CENTS
        ah  == a \div RATIO_DEN
        al  == a % RATIO_DEN
        T   == ah * w
        mid == (T % (d \div RATIO_DEN)) * RATIO_DEN + al * w
    IN  [q |-> T \div (d \div RATIO_DEN) + mid \div d, r |-> mid % d, d |-> d]

(* round_float(p - x, 2) for a total p in hundredths and a cut x = q + r/d *)
(* hundredths (0 <= r < d): nearest hundredth, ties away from zero.        *)
round_float_sub(p, cut) ==
    LET P == p - cut.q
    IN  IF 2 * cut.r > cut.d \/ (2 * cut.r = cut.d /\ P <= 0) THEN P - 1 ELSE P

----------------------------------------------------------------------------
(* Python floats (IEEE 754 binary64), for the values the tracker can hold:  *)
(* zero, or m * 2^e with m a sequence of Prec bits, most significant        *)
(* first, m[1] = 1.  Every operation is the exact result rounded to the     *)
(* nearest float, ties to the even mantissa.                                *)

Zero == [m |-> <<>>, e |-> 0]

Zeros(n) == [i \in 1..n |-> 0]

(* the n low bits of v *)
BitsN(v, n) == [i \in 1..n |-> (v \div 2^(n - i)) % 2]

StripZeros(b) ==
    IF \A i \in 1..Len(b) : b[i] = 0 THEN <<>>
    ELSE SubSeq(b, CHOOSE i \in 1..Len(b) : b[i] = 1 /\ \A j \in 1..(i - 1) : b[j] = 0, Len(b))

(* the bits of a whole number below 2^(2 * Limb) *)
BitsOf(n) == StripZeros(BitsN(n \div 2^Limb, Limb) \o BitsN(n, Limb))

RECURSIVE IntOf(_)
IntOf(b) == IF b = <<>> THEN 0 ELSE 2 * IntOf(SubSeq(b, 1, Len(b) - 1)) + b[Len(b)]

(* the bits above the last limb, and the last limb *)
High(b) == SubSeq(b, 1, Len(b) - Min(Limb, Len(b)))
Low(b) == SubSeq(b, Len(b) - Min(Limb, Len(b)) + 1, Len(b))

(* a + b + c for bit sequences of one length and a carry c: one bit longer *)
RECURSIVE AddBits(_, _, _)
AddBits(a, b, c) ==
    LET n == Len(Low(a))
        s == IntOf(Low(a)) + IntOf(Low(b)) + c
    IN  IF Len(a) <= Limb THEN BitsN(s, n + 1)
        ELSE AddBits(High(a), High(b), s \div 2^n) \o BitsN(s, n)

(* bits * k + c for a small integer k *)
RECURSIVE MulBits(_, _, _)
MulBits(bits, k, c) ==
    LET n == Len(Low(bits))
        p == IntOf(Low(bits)) * k + c
    IN  IF Len(bits) <= Limb THEN BitsOf(p)
        ELSE MulBits(High(bits), k, p \div 2^n) \o BitsN(p, n)

(* long division of bits by a small integer d, from remainder r on *)
RECURSIVE DivBits(_, _, _)
DivBits(bits, d, r) ==
    LET n == Min(Limb, Len(bits))
        x == r * 2^n + IntOf(SubSeq(bits, 1, n))
    IN  IF Len(bits) <= Limb THEN [q |-> BitsN(x \div d, n), r |-> x % d]
        ELSE LET rest == DivBits(SubSeq(bits, n + 1, Len(bits)), d, x % d)
             IN  [q |-> BitsN(x \div d, n) \o rest.q, r |-> rest.r]

BitsLess(a, b) ==
    \E i \in 1..Len(a) : a[i] < b[i] /\ \A j \in 1..(i - 1) : a[j] = b[j]

(* the float nearest to bits * 2^e (plus a nonzero tail below the last bit *)
(* when sticky), ties to even                                              *)
float_round(bits, e, sticky) ==
    LET b == StripZeros(bits)
        n == Len(b)
    IN  IF n = 0 THEN Zero
        ELSE IF n <= Prec THEN [m |-> b \o Zeros(Prec - n), e |-> e - (Prec - n)]
        ELSE LET keep == SubSeq(b, 1, Prec)
                 rest == SubSeq(b, Prec + 1, n)
                 more == sticky \/ \E i \in 2..Len(rest) : rest[i] = 1
                 up   == rest[1] = 1 /\ (more \/ keep[Prec] = 1)
                 k1   == IF up THEN StripZeros(AddBits(keep, Zeros(Prec - 1) \o <<1>>, 0)) ELSE keep
             IN  IF Len(k1) > Prec
                 THEN [m |-> SubSeq(k1, 1, Prec), e |-> e + Len(rest) + 1]
                 ELSE [m |-> k1, e |-> e + Len(rest)]

float_less(x, y) ==
    IF y = Zero THEN FALSE
    ELSE IF x = Zero THEN TRUE
    ELSE x.e < y.e \/ (x.e = y.e /\ BitsLess(x.m, y.m))

(* x + y *)
float_add(x, y) ==
    IF x = Zero THEN y
    ELSE IF y = Zero THEN x
    ELSE LET e == Min(x.e, y.e)
             a == x.m \o Zeros(x.e - e)
             b == y.m \o Zeros(y.e - e)
             n == Max(Len(a), Len(b))
         IN  float_round(AddBits(Zeros(n - Len(a)) \o a, Zeros(n - Len(b)) \o b, 0), e, FALSE)

(* x * (k / 2^s) for a small integer k: k / 2^s is itself a float *)
float_mul(x, k, s) ==
    IF x = Zero THEN Zero ELSE float_round(MulBits(x.m, k, 0), x.e - s, FALSE)

(* x / d for a small integer d *)
float_div(x, d) ==
    IF x = Zero THEN Zero
    ELSE LET ext == Len(BitsOf(d)) + 2
             res == DivBits(x.m \o Zeros(ext), d, 0)
         IN  float_round(res.q, x.e - ext, res.r # 0)

(* float("n/d") for a decimal with numerator n over d, a power of ten *)
float(n, d) == float_div(float_round(BitsOf(n), 0, FALSE), d)

(* the largest whole number of hundredths not above x *)
floor_cents(x) ==
    IF x = Zero THEN 0
    ELSE LET p == MulBits(x.m, CENTS, 0)
         IN  IF x.e >= 0 THEN IntOf(p \o Zeros(x.e))
             ELSE IF Len(p) + x.e <= 0 THEN 0
             ELSE IntOf(SubSeq(p, 1, Len(p) + x.e))

(* ProductionGraph.round_float(x, 2) of a float x >= 0, in hundredths:     *)
(* str(x) is the shortest decimal that reads back as x, so it is at or     *)
(* above a tie h.xx5 exactly when x is at or above float("h.xx5"), and     *)
(* ROUND_HALF_UP takes the tie upwards.                                    *)
round_float_cents(x) ==
    LET h == floor_cents(x)
        tie(H) == float(10 * H + 5, 10 * CENTS)
    IN  CHOOSE H \in {h, h + 1} : /\ H = 0 \/ ~float_less(x, tie(H - 1))
                                  /\ float_less(x, tie(H))

----------------------------------------------------------------------------
(* Ordered dictionaries (Python dict): sequences of [k, v] in insertion    *)
(* order; assigning an existing key keeps its position.                    *)

DictKeys(d) == {d[i].k : i \in 1..Len(d)}
DictHas(d, key) == \E i \in 1..Len(d) : d[i].k = key
DictIndex(d, key) == CHOOSE i \in 1..Len(d) : d[i].k = key
DictAt(d, key) == d[DictIndex(d, key)].v
DictGet(d, key, default) == IF DictHas(d, key) THEN DictAt(d, key) ELSE default
DictPut(d, key, val) ==
    IF DictHas(d, key)
    THEN [d EXCEPT ![DictIndex(d, key)] = [k |-> key, v |-> val]]
    ELSE Append(d, [k |-> key, v |-> val])
DictDel(d, key) ==
    IF DictHas(d, key)
    THEN LET i == DictIndex(d, key)
         IN  SubSeq(d, 1, i - 1) \o SubSeq(d, i + 1, Len(d))
    ELSE d
DictValues(d) == [i \in 1..Len(d) |-> d[i].v]
(* dict equality in Python ignores order *)
DictAsSet(d) == {<<d[i].k, d[i].v>> : i \in 1..Len(d)}

----------------------------------------------------------------------------
(* models.py: ResourceNode *)

purity_multiplier_x2 == [Impure |-> 1, Normal |-> 2, Pure |-> 4]

(* the rate at the default clock speed, whatever the stored one *)
calculate_output_rate_nominal(node) ==
    purity_multiplier_x2[node.purity] * node.miner_rate * DEFAULT_CLOCK

calculate_output_rate(node) ==
    purity_multiplier_x2[node.purity] * node.miner_rate * node.clock_speed

ResourceNode(obj, node_id, resource_type, purity, miner_rate) ==
    LET n0 == [obj |-> obj, node_id |-> node_id, resource_type |-> resource_type,
               purity |-> purity, miner_rate |-> miner_rate,
               clock_speed |-> DEFAULT_CLOCK, output_rate |-> 0]
    IN  [n0 EXCEPT !.output_rate = calculate_output_rate(n0)]

(* a setter that stores the clamped speed and keeps the cached rate *)
ResourceNode_set_clock_speed_stale(node, clock_speed) ==
    [node EXCEPT !.clock_speed = Max(MIN_CLOCK, Min(MAX_CLOCK, clock_speed))]

ResourceNode_set_clock_speed(node, clock_speed) ==
    LET n1 == [node EXCEPT !.clock_speed = Max(MIN_CLOCK, Min(MAX_CLOCK, clock_speed))]
    IN  [n1 EXCEPT !.output_rate = calculate_output_rate(n1)]

----------------------------------------------------------------------------
(* models.py: Recipe and Facility.  An item list is a Python list object;  *)
(* a Facility's input_items / output_items either is a list of its own     *)
(* (ref = 0) or is the very list object held by catalog recipe number ref. *)

Recipe(name, building_type, inputs, outputs) ==
    [name |-> name, building_type |-> building_type, inputs |-> inputs, outputs |-> outputs]

OwnList(items) == [ref |-> 0, own |-> items]
SharedList(r) == [ref |-> r, own |-> <<>>]

Facility(obj, facility_id, facility_type, recipe) ==
    [obj |-> obj, facility_id |-> facility_id, facility_type |-> facility_type,
     recipe |-> recipe, input_items |-> OwnList(<<>>), output_items |-> OwnList(<<>>),
     clock_speed |-> DEFAULT_CLOCK, is_active |-> TRUE]

input_items(rs, f) ==
    IF f.input_items.ref = 0 THEN f.input_items.own ELSE rs[f.input_items.ref].inputs
output_items(rs, f) ==
    IF f.output_items.ref = 0 THEN f.output_items.own ELSE rs[f.output_items.ref].outputs

(* a setter that clamps from above only *)
Facility_set_clock_speed_nofloor(f, clock_speed) ==
    [f EXCEPT !.clock_speed = Min(MAX_CLOCK, clock_speed)]

Facility_set_clock_speed(f, clock_speed) ==
    [f EXCEPT !.clock_speed = Max(MIN_CLOCK, Min(MAX_CLOCK, clock_speed))]

(* the flip, with the clock speed put back to 100 % as well *)
toggle_active_state_reset(f) ==
    [f EXCEPT !.is_active = ~f.is_active, !.clock_speed = DEFAULT_CLOCK]

toggle_active_state(f) == [f EXCEPT !.is_active = ~f.is_active]

(* the recipe change alone, the clock speed kept *)
update_recipe_keep_clock(f, r, rs) ==
    [f EXCEPT !.recipe = rs[r].name,
              !.input_items = SharedList(r),
              !.output_items = SharedList(r)]

(* update_recipe stores recipe.inputs / recipe.outputs themselves, not copies *)
update_recipe(f, r, rs) ==
    [f EXCEPT !.recipe = rs[r].name,
              !.input_items = SharedList(r),
              !.output_items = SharedList(r),
              !.clock_speed = DEFAULT_CLOCK]

AdjustList(items, factor) ==
    [i \in 1..Len(items) |-> <<items[i][1], items[i][2] * factor>>]

(* the scaling alone, without the test of is_active *)
get_adjusted_rates_always(rs, f) ==
    << AdjustList(input_items(rs, f), f.clock_speed),
       AdjustList(output_items(rs, f), f.clock_speed) >>

(* returns <<adjusted_inputs, adjusted_outputs>>, rates in 1/ADJUST_DEN *)
get_adjusted_rates(rs, f) ==
    IF ~f.is_active
    THEN <<  <<>>, <<>>  >>
    ELSE LET adjustment_factor == f.clock_speed
         IN  << AdjustList(input_items(rs, f), adjustment_factor),
                AdjustList(output_items(rs, f), adjustment_factor) >>

----------------------------------------------------------------------------
(* models.py: Base *)

Base(base_id, name) ==
    [base_id |-> base_id, name |-> name, nodes |-> <<>>, facilities |-> <<>>,
     storage |-> <<>>]

(* setdefault: an id that is already held keeps its node *)
Base_add_node_keep(base, node) ==
    IF DictHas(base.nodes, node.node_id) THEN base
    ELSE [base EXCEPT !.nodes = DictPut(@, node.node_id, node)]

Base_add_node(base, node) == [base EXCEPT !.nodes = DictPut(@, node.node_id, node)]

Base_add_facility(base, facility) ==
    [base EXCEPT !.facilities = DictPut(@, facility.facility_id, facility)]

(* the quantity stored over what was there *)
Base_update_storage_set(base, item, quantity) ==
    [base EXCEPT !.storage = DictPut(@, item, quantity)]

(* update_storage; quantities are whole numbers here *)
Base_update_storage(base, item, quantity) ==
    IF DictHas(base.storage, item)
    THEN [base EXCEPT !.storage = DictPut(@, item, DictAt(@, item) + quantity)]
    ELSE [base EXCEPT !.storage = DictPut(@, item, quantity)]

(* update_storage(call[1], call[2]) for each call of a sequence, in order *)
RECURSIVE UpdateStorageAll(_, _)
UpdateStorageAll(base, calls) ==
    IF calls = <<>> THEN base
    ELSE UpdateStorageAll(Base_update_storage(base, Head(calls)[1], Head(calls)[2]),
                          Tail(calls))

----------------------------------------------------------------------------
(* production_graph.py: ProductionGraph.calculate_production_rates         *)

RECURSIVE Flatten(_)
Flatten(ss) == IF ss = <<>> THEN <<>> ELSE Head(ss) \o Flatten(Tail(ss))

(* for base in bases.values(): for node in base.nodes.values() *)
BaseNodes(bs) == Flatten([i \in 1..Len(bs) |-> DictValues(bs[i].v.nodes)])
(* for base in bases.values(): for facility in base.facilities.values() *)
BaseFacilities(bs) == Flatten([i \in 1..Len(bs) |-> DictValues(bs[i].v.facilities)])

(* total[resource_type] = round_float(total.get(resource_type, 0) + node.output_rate, 2) *)
AccumulateNode(total, node) ==
    DictPut(total, node.resource_type,
            round_float(DictGet(total, node.resource_type, 0) * (OUTPUT_DEN \div CENTS)
                            + node.output_rate,
                        OUTPUT_DEN \div CENTS))

(* for node in ...: the loop over a sequence of nodes *)
RECURSIVE AccumulateNodes(_, _)
AccumulateNodes(total, nodes) ==
    IF nodes = <<>> THEN total
    ELSE AccumulateNodes(AccumulateNode(total, Head(nodes)), Tail(nodes))

(* total[item] = round_float(total.get(item, 0) + rate, 2), rate adjusted *)
AccumulateItem(total, entry) ==
    DictPut(total, entry[1],
            round_float(DictGet(total, entry[1], 0) * (ADJUST_DEN \div CENTS) + entry[2],
                        ADJUST_DEN \div CENTS))

(* for item, rate in adjusted: the loop over an adjusted item list *)
RECURSIVE AccumulateItems(_, _)
AccumulateItems(total, entries) ==
    IF entries = <<>> THEN total
    ELSE AccumulateItems(AccumulateItem(total, Head(entries)), Tail(entries))

(* raw production of the nodes of the bases alone *)
RawProduction_linked(bs, un) == AccumulateNodes(<<>>, BaseNodes(bs))

(* raw production with the first stored quantity of the ledgers counted in *)
RawProduction_stored(bs, un) ==
    LET raw == AccumulateNodes(AccumulateNodes(<<>>, BaseNodes(bs)), DictValues(un))
        stored == Flatten([i \in 1..Len(bs) |-> bs[i].v.storage])
    IN  IF stored = <<>> THEN raw
        ELSE DictPut(raw, stored[1].k, DictGet(raw, stored[1].k, 0) + stored[1].v * CENTS)

(* lines 51-58: raw production of the nodes of every base, then of the pool *)
RawProduction(bs, un) ==
    AccumulateNodes(AccumulateNodes(<<>>, BaseNodes(bs)), DictValues(un))

(* the float that calculate_output_rate stores in node.output_rate:        *)
(* purity_multiplier[purity] * miner_rate * (clock_speed / 100.0), where   *)
(* purity_multiplier * miner_rate is a whole number of halves              *)
output_rate_float(node) ==
    float_mul(float_div(float(node.clock_speed, DEFAULT_CLOCK \div 100), 100),
              purity_multiplier_x2[node.purity] * node.miner_rate, 1)

(* line 53 / 57 on floats: the total is kept in hundredths *)
AccumulateNodeFloat(total, node) ==
    DictPut(total, node.resource_type,
            round_float_cents(float_add(float(DictGet(total, node.resource_type, 0), CENTS),
                                        output_rate_float(node))))

RECURSIVE AccumulateNodesFloat(_, _)
AccumulateNodesFloat(total, nodes) ==
    IF nodes = <<>> THEN total
    ELSE AccumulateNodesFloat(AccumulateNodeFloat(total, Head(nodes)), Tail(nodes))

(* lines 51-58 on floats *)
RawProductionFloat(bs, un) ==
    AccumulateNodesFloat(AccumulateNodesFloat(<<>>, BaseNodes(bs)), DictValues(un))

(* lines 64-72, body of the loop for one facility *)
AccumulateFacility(rs, tot, facility) ==
    LET adjusted == get_adjusted_rates(rs, facility)
    IN  [production |-> AccumulateItems(tot.production, adjusted[2]),
         consumption |-> AccumulateItems(tot.consumption, adjusted[1])]

(* lines 64-72: the loop over a sequence of facilities *)
RECURSIVE AccumulateFacilities(_, _, _)
AccumulateFacilities(rs, tot, facilities) ==
    IF facilities = <<>> THEN tot
    ELSE AccumulateFacilities(rs, AccumulateFacility(rs, tot, Head(facilities)),
                              Tail(facilities))

(* lines 46-72: the totals before the shortage pass *)
Totals(bs, un, rs) ==
    AccumulateFacilities(rs, [production |-> RawProduction(bs, un), consumption |-> <<>>],
                         BaseFacilities(bs))

(* line 86 and 87-89 for one output of one facility that lists the short item *)
CutOutput(st, item, production_ratio, entry) ==
    LET output_item == entry[1]
        output_rate == entry[2]
        cut == CutAmount(output_rate, RATIO_DEN - production_ratio)
        lf == IF DictHas(st.limiting_factors, output_item)
              THEN st.limiting_factors
              ELSE DictPut(st.limiting_factors, output_item, <<>>)
    IN  [st EXCEPT
           !.production = DictPut(@, output_item,
                                  round_float_sub(DictAt(@, output_item), cut)),
           !.limiting_factors = DictPut(lf, output_item, Append(DictAt(lf, output_item), item))]

(* lines 85-89: the loop over the adjusted outputs of one facility *)
RECURSIVE CutOutputs(_, _, _, _)
CutOutputs(st, item, production_ratio, entries) ==
    IF entries = <<>> THEN st
    ELSE CutOutputs(CutOutput(st, item, production_ratio, Head(entries)), item,
                    production_ratio, Tail(entries))

(* the cut taken from the facility's consumption of its inputs as well *)
CutFacility_inputs(rs, st, item, production_ratio, facility) ==
    LET adjusted == get_adjusted_rates(rs, facility)
        uses(R) == \E i \in 1..Len(adjusted[1]) : adjusted[1][i][1] = R
        rate(R) == adjusted[1][CHOOSE i \in 1..Len(adjusted[1]) : adjusted[1][i][1] = R][2]
        cut_inputs(c) ==
            [i \in 1..Len(c) |->
                IF uses(c[i].k)
                THEN [k |-> c[i].k,
                      v |-> round_float_sub(c[i].v, CutAmount(rate(c[i].k), RATIO_DEN - production_ratio))]
                ELSE c[i]]
    IN  IF uses(item)
        THEN [CutOutputs(st, item, production_ratio, adjusted[2]) EXCEPT
                 !.consumption = cut_inputs(@)]
        ELSE st

(* lines 82-89 for one facility *)
CutFacility(rs, st, item, production_ratio, facility) ==
    LET adjusted == get_adjusted_rates(rs, facility)
    IN  IF \E i \in 1..Len(adjusted[1]) : adjusted[1][i][1] = item
        THEN CutOutputs(st, item, production_ratio, adjusted[2])
        ELSE st

(* lines 80-89: the loop over a sequence of facilities *)
RECURSIVE CutFacilities(_, _, _, _, _)
CutFacilities(rs, st, item, production_ratio, facilities) ==
    IF facilities = <<>> THEN st
    ELSE CutFacilities(rs, CutFacility(rs, st, item, production_ratio, Head(facilities)),
                       item, production_ratio, Tail(facilities))

(* lines 75-89, body of the loop for one entry of total_consumption *)
VisitItem(bs, rs, st, centry) ==
    LET item == centry.k
        consumption == centry.v
        production == DictGet(st.production, item, 0)
    IN  IF st.raised # "" THEN st
        ELSE IF ~(consumption > production) THEN st
        ELSE IF consumption = 0 THEN [st EXCEPT !.raised = "ZeroDivisionError"]
        ELSE LET production_ratio == round_float(production * RATIO_DEN, consumption)
                 st1 == [st EXCEPT !.limiting_factors = DictPut(@, item, <<>>)]
             IN  CutFacilities(rs, st1, item, production_ratio, BaseFacilities(bs))

(* lines 46-89 up to and including the k-th iteration of the loop of line  *)
(* 75 over total_consumption.items()                                       *)
RECURSIVE ShortagePass(_, _, _, _)
ShortagePass(bs, un, rs, k) ==
    LET tot == Totals(bs, un, rs)
    IN  IF k = 0
        THEN [production |-> tot.production, consumption |-> tot.consumption,
              limiting_factors |-> <<>>, raised |-> ""]
        ELSE VisitItem(bs, rs, ShortagePass(bs, un, rs, k - 1), tot.consumption[k])

(* the whole method: [production, consumption, limiting_factors], or raised *)
calculate_production_rates(bs, un, rs) ==
    ShortagePass(bs, un, rs, Len(Totals(bs, un, rs).consumption))

(* The loop of lines 75-89 one iteration at a time.  A frame holds the     *)
(* number k of entries of total_consumption.items() already visited, and,  *)
(* inside the loop of lines 81-89 (inner), the ratio of line 77 and the    *)
(* number j of facilities already visited, with the locals in st.          *)
shortage_frame(bs, un, rs) ==
    [k |-> 0, inner |-> FALSE, j |-> 0, production_ratio |-> 0,
     st |-> ShortagePass(bs, un, rs, 0)]

shortage_done(fr) ==
    \/ fr.st.raised # ""
    \/ ~fr.inner /\ fr.k = Len(fr.st.consumption)

(* an iterator that is not advanced when the inner loop is exhausted *)
shortage_step_stall(bs, rs, fr) ==
    LET item == fr.st.consumption[fr.k + 1].k
    IN  IF fr.inner
        THEN IF fr.j < Len(BaseFacilities(bs))
             THEN [fr EXCEPT !.j = fr.j + 1,
                             !.st = CutFacility(rs, fr.st, item, fr.production_ratio,
                                                BaseFacilities(bs)[fr.j + 1])]
             ELSE fr
        ELSE fr

shortage_step(bs, rs, fr) ==
    LET item == fr.st.consumption[fr.k + 1].k
        consumption == fr.st.consumption[fr.k + 1].v
        production == DictGet(fr.st.production, item, 0)
    IN  IF fr.inner
        THEN IF fr.j < Len(BaseFacilities(bs))
             THEN [fr EXCEPT !.j = fr.j + 1,
                             !.st = CutFacility(rs, fr.st, item, fr.production_ratio,
                                                BaseFacilities(bs)[fr.j + 1])]
             ELSE [fr EXCEPT !.k = fr.k + 1, !.inner = FALSE, !.j = 0, !.production_ratio = 0]
        ELSE IF ~(consumption > production) THEN [fr EXCEPT !.k = fr.k + 1]
        ELSE IF consumption = 0 THEN [fr EXCEPT !.st.raised = "ZeroDivisionError"]
        ELSE [fr EXCEPT !.inner = TRUE, !.j = 0,
                        !.production_ratio = round_float(production * RATIO_DEN, consumption),
                        !.st.limiting_factors = DictPut(@, item, <<>>)]

(* the totals of the whole graph, whichever base is asked for *)
calculate_production_rates_for_base_global(bs, rs, base_id) ==
    Totals(bs, <<>>, rs)

(* the production of the nodes of the base alone *)
calculate_production_rates_for_base_nodes(bs, rs, base_id) ==
    IF ~DictHas(bs, base_id)
    THEN [production |-> <<>>, consumption |-> <<>>]
    ELSE [production |-> AccumulateNodes(<<>>, DictValues(DictAt(bs, base_id).nodes)),
          consumption |-> <<>>]

(* calculate_production_rates_for_base: [production, consumption] of the   *)
(* nodes and facilities of one base, lines 187-208                         *)
calculate_production_rates_for_base(bs, rs, base_id) ==
    IF ~DictHas(bs, base_id)
    THEN [production |-> <<>>, consumption |-> <<>>]
    ELSE LET base == DictAt(bs, base_id)
         IN  AccumulateFacilities(rs,
                 [production |-> AccumulateNodes(<<>>, DictValues(base.nodes)),
                  consumption |-> <<>>],
                 DictValues(base.facilities))

(* production_graph.py: the other methods of ProductionGraph               *)

add_base(bs, base) == DictPut(bs, base.base_id, base)
add_unlinked_node(un, node) == DictPut(un, node.node_id, node)
remove_unlinked_node(un, node) == DictDel(un, node.node_id)
delete_base(bs, base_id) == IF DictHas(bs, base_id) THEN DictDel(bs, base_id) ELSE bs

(* the facility id dropped from every base, whatever base_id says *)
delete_facility_any_base(bs, base_id, facility_id) ==
    [i \in 1..Len(bs) |-> [bs[i] EXCEPT !.v.facilities = DictDel(@, facility_id)]]

delete_facility(bs, base_id, facility_id) ==
    IF DictHas(bs, base_id) /\ DictHas(DictAt(bs, base_id).facilities, facility_id)
    THEN DictPut(bs, base_id,
                 [DictAt(bs, base_id) EXCEPT !.facilities = DictDel(@, facility_id)])
    ELSE bs

(* the key dropped from every base and from the pool *)
delete_node_everywhere(bs, un, node_id) ==
    << [i \in 1..Len(bs) |-> [bs[i] EXCEPT !.v.nodes = DictDel(@, node_id)]],
       DictDel(un, node_id) >>

(* delete_node: the first base that has the key loses it, else the pool;   *)
(* returns the new <<bases, unlinked_nodes>>                               *)
delete_node(bs, un, node_id) ==
    LET holders == {i \in 1..Len(bs) : DictHas(bs[i].v.nodes, node_id)}
        first == CHOOSE i \in holders : \A j \in holders : i <= j
    IN  IF holders # {}
        THEN << [bs EXCEPT ![first].v.nodes = DictDel(@, node_id)], un >>
        ELSE << bs, DictDel(un, node_id) >>

(* identify_bottlenecks unpacks the 3-tuple returned by                    *)
(* calculate_production_rates into two names (line 100); res is what the   *)
(* call of line 100 gave                                                   *)
unpack_and_compare(res) ==
    LET tuple == <<res.production, res.consumption, res.limiting_factors>>
        production == tuple[1]
        consumption == tuple[2]
        items == DictKeys(production) \cup DictKeys(consumption)
        deficit(item) == round_float(DictGet(consumption, item, 0)
                                       - DictGet(production, item, 0), 1)
    IN  IF res.raised # "" THEN [raised |-> res.raised, bottlenecks |-> {}]
        ELSE IF Len(tuple) # 2 THEN [raised |-> "ValueError", bottlenecks |-> {}]
        ELSE [raised |-> "",
              bottlenecks |-> {<<item, deficit(item)>> : item \in {i \in items : deficit(i) > 0}}]

identify_bottlenecks(bs, un, rs) == unpack_and_compare(calculate_production_rates(bs, un, rs))

----------------------------------------------------------------------------
(* ui.py: UserInterface.calculate_possible_recipes.  net_production maps   *)
(* items to hundredths; recipe quantities are whole items, so the float    *)
(* quotient available / quantity has the floor of the exact quotient.  A   *)
(* craft count is an int or float('inf').                                  *)

inf == [inf |-> TRUE, n |-> 0]
int(n) == [inf |-> FALSE, n |-> n]

(* min(max_crafts, crafts), crafts an int *)
min_crafts(max_crafts, crafts) ==
    IF max_crafts.inf \/ crafts < max_crafts.n THEN int(crafts) ELSE max_crafts

(* floor(available_quantity / input_quantity), input_quantity # 0 *)
floor_quotient(available_quantity, input_quantity) ==
    IF input_quantity > 0
    THEN available_quantity \div (input_quantity * CENTS)
    ELSE 0 - ((available_quantity + (0 - input_quantity) * CENTS - 1)
                 \div ((0 - input_quantity) * CENTS))

(* lines 634-645: the loop over recipe.inputs, with its two breaks *)
RECURSIVE CraftsLoop(_, _, _)
CraftsLoop(net_production, inputs, max_crafts) ==
    IF inputs = <<>> THEN [raised |-> "", max_crafts |-> max_crafts]
    ELSE LET input_item == Head(inputs)[1]
             input_quantity == Head(inputs)[2]
         IN  IF input_item \in DOMAIN net_production
             THEN IF net_production[input_item] > 0
                  THEN IF input_quantity = 0
                       THEN [raised |-> "ZeroDivisionError", max_crafts |-> max_crafts]
                       ELSE CraftsLoop(net_production, Tail(inputs),
                                       min_crafts(max_crafts,
                                                  floor_quotient(net_production[input_item],
                                                                 input_quantity)))
                  ELSE [raised |-> "", max_crafts |-> int(0)]
             ELSE [raised |-> "", max_crafts |-> int(0)]

(* lines 632-648: the loop over game_data.recipes *)
RECURSIVE PossibleLoop(_, _, _)
PossibleLoop(net_production, rs, possible_recipes) ==
    IF rs = <<>> THEN [raised |-> "", possible_recipes |-> possible_recipes]
    ELSE LET res == CraftsLoop(net_production, Head(rs).inputs, inf)
         IN  IF res.raised # ""
             THEN [raised |-> res.raised, possible_recipes |-> <<>>]
             ELSE PossibleLoop(net_production, Tail(rs),
                               IF res.max_crafts.inf \/ res.max_crafts.n > 0
                               THEN DictPut(possible_recipes, Head(rs).name, res.max_crafts)
                               ELSE possible_recipes)

calculate_possible_recipes(rs, net_production) == PossibleLoop(net_production, rs, <<>>)

----------------------------------------------------------------------------
(* models.py: GameData.get_next_base_id, get_next_node_id,                 *)
(* get_next_facility_id.  gd holds the three counters; the result is the   *)
(* id returned and the counters after the call.                            *)

GameData(base_id, node_id, facility_id) ==
    [next_base_id |-> base_id, next_node_id |-> node_id, next_facility_id |-> facility_id]

get_next_base_id(gd) ==
    [ret |-> gd.next_base_id, gd |-> [gd EXCEPT !.next_base_id = @ + 1]]

(* the node id taken from the node counter, the base counter advanced *)
get_next_node_id_base(gd) ==
    [ret |-> gd.next_node_id, gd |-> [gd EXCEPT !.next_base_id = @ + 1]]

get_next_node_id(gd) ==
    [ret |-> gd.next_node_id, gd |-> [gd EXCEPT !.next_node_id = @ + 1]]

get_next_facility_id(gd) ==
    [ret |-> gd.next_facility_id, gd |-> [gd EXCEPT !.next_facility_id = @ + 1]]

----------------------------------------------------------------------------
(* The object graph: every held reference to an object carries the         *)
(* object's identity obj; a method call on an object is seen through every *)
(* reference to it.  Every node and facility is constructed with an id     *)
(* from the GameData allocator, which serves as its identity.              *)

HeldNodes(bs, un) ==
    {BaseNodes(bs)[i] : i \in 1..Len(BaseNodes(bs))} \cup {un[i].v : i \in 1..Len(un)}
HeldFacilities(bs) == {BaseFacilities(bs)[i] : i \in 1..Len(BaseFacilities(bs))}
NodeObjs(bs, un) == {n.obj : n \in HeldNodes(bs, un)}
FacilityObjs(bs) == {f.obj : f \in HeldFacilities(bs)}
NodeOf(bs, un, o) == CHOOSE n \in HeldNodes(bs, un) : n.obj = o
FacilityOf(bs, o) == CHOOSE f \in HeldFacilities(bs) : f.obj = o

(* call is the method call as a function of the object it is made on *)
OnObject(d, o, call) ==
    [i \in 1..Len(d) |-> IF d[i].v.obj = o THEN [k |-> d[i].k, v |-> call[d[i].v]] ELSE d[i]]
OnNode(bs, o, call) ==
    [i \in 1..Len(bs) |->
        [k |-> bs[i].k, v |-> [bs[i].v EXCEPT !.nodes = OnObject(bs[i].v.nodes, o, call)]]]
OnFacility(bs, o, call) ==
    [i \in 1..Len(bs) |->
        [k |-> bs[i].k,
         v |-> [bs[i].v EXCEPT !.facilities = OnObject(bs[i].v.facilities, o, call)]]]
OnBase(bs, base_id, call) ==
    [i \in 1..Len(bs) |->
        IF bs[i].k = base_id THEN [k |-> bs[i].k, v |-> call[bs[i].v]] ELSE bs[i]]
HeldBases(bs) == {bs[i].v : i \in 1..Len(bs)}

----------------------------------------------------------------------------
(* Initial state: a new tracker whose catalog holds the recipes entered    *)
(* through the catalog menu (ui.add_new_recipe -> GameData.add_recipe)     *)

RecipeBook ==
    << Recipe("Iron Ingot", "Smelter", << <<"Iron Ore", 30>> >>, << <<"Iron Ingot", 30>> >>),
       Recipe("Steel Ingot", "Foundry", << <<"Iron Ore", 45>>, <<"Coal", 45>> >>,
              << <<"Steel Ingot", 45>> >>),
       Recipe("Steel Pipe", "Constructor", << <<"Steel Ingot", 30>> >>,
              << <<"Steel Pipe", 20>> >>) >>

None == [name |-> "none", args |-> <<>>, ret |-> <<>>]

Init ==
    /\ bases = <<>>
    /\ unlinked_nodes = <<>>
    /\ recipes = RecipeBook
    /\ next_base_id = 1
    /\ next_node_id = 1
    /\ next_facility_id = 1
    /\ returned = None

----------------------------------------------------------------------------
(* Tracker handlers (main.py, ui.py)                                       *)

(* manage_bases, "Add New Base": get_base_input allocates the id *)
AddNewBase(cap) ==
    /\ next_base_id <= cap
    /\ bases' = add_base(bases, Base(next_base_id, "Base"))
    /\ next_base_id' = next_base_id + 1
    /\ returned' = None
    /\ UNCHANGED <<unlinked_nodes, recipes, next_node_id, next_facility_id>>

(* add_new_node: choice is the base picked in select_base, 0 for Cancel *)
AddNewNode(cap, resource_type, purity, miner_rate, choice) ==
    /\ next_node_id <= cap
    /\ choice \in DictKeys(bases) \cup {0}
    /\ LET new_node == ResourceNode(next_node_id, next_node_id, resource_type, purity, miner_rate)
       IN  IF bases = <<>> \/ choice = 0
           THEN /\ unlinked_nodes' = add_unlinked_node(unlinked_nodes, new_node)
                /\ UNCHANGED bases
           ELSE /\ LET Add == [base \in HeldBases(bases) |-> Base_add_node(base, new_node)]
                   IN  bases' = OnBase(bases, choice, Add)
                /\ UNCHANGED unlinked_nodes
    /\ next_node_id' = next_node_id + 1
    /\ returned' = None
    /\ UNCHANGED <<recipes, next_base_id, next_facility_id>>

(* link_node_to_base with a node and a base selected *)
LinkNodeToBase(node_id, base_id) ==
    /\ DictHas(unlinked_nodes, node_id)
    /\ DictHas(bases, base_id)
    /\ LET node == DictAt(unlinked_nodes, node_id)
           Add == [base \in HeldBases(bases) |-> Base_add_node(base, node)]
       IN  /\ bases' = OnBase(bases, base_id, Add)
           /\ unlinked_nodes' = remove_unlinked_node(unlinked_nodes, node)
    /\ returned' = None
    /\ UNCHANGED <<recipes, next_base_id, next_node_id, next_facility_id>>

(* link_node_to_base left at line 342, 346 or 354: the pool is empty, or   *)
(* Cancel (0) is picked for the node or for the base; the call stays in    *)
(* returned                                                                *)
LinkNodeToBaseCancel(node_id, base_id) ==
    /\ node_id \in DictKeys(unlinked_nodes) \cup {0}
    /\ base_id \in DictKeys(bases) \cup {0}
    /\ node_id = 0 \/ base_id = 0
    /\ node_id = 0 => base_id = 0
    /\ returned' = [name |-> "link_node_to_base", args |-> <<node_id, base_id>>, ret |-> None.ret]
    /\ UNCHANGED <<bases, unlinked_nodes, recipes, next_base_id, next_node_id, next_facility_id>>

(* track_facilities, "Add New Facility": get_facility_input copies the     *)
(* items of catalog recipe r into the new facility one by one              *)
AddNewFacility(cap, base_id, r) ==
    /\ next_facility_id <= cap
    /\ DictHas(bases, base_id)
    /\ r \in 1..Len(recipes)
    /\ LET f0 == Facility(next_facility_id, next_facility_id, recipes[r].building_type, recipes[r].name)
           new_facility == [f0 EXCEPT !.input_items = OwnList(recipes[r].inputs),
                                      !.output_items = OwnList(recipes[r].outputs)]
           Add == [base \in HeldBases(bases) |-> Base_add_facility(base, new_facility)]
       IN  bases' = OnBase(bases, base_id, Add)
    /\ next_facility_id' = next_facility_id + 1
    /\ returned' = None
    /\ UNCHANGED <<unlinked_nodes, recipes, next_base_id, next_node_id>>

----------------------------------------------------------------------------
(* Calls of the methods of the entities held by the graph                  *)

(* node.set_clock_speed(v) *)
NodeSetClockSpeed(o, v) ==
    /\ o \in NodeObjs(bases, unlinked_nodes)
    /\ LET Set == [node \in HeldNodes(bases, unlinked_nodes) |->
                      ResourceNode_set_clock_speed(node, v)]
       IN  /\ bases' = OnNode(bases, o, Set)
           /\ unlinked_nodes' = OnObject(unlinked_nodes, o, Set)
    /\ returned' = None
    /\ UNCHANGED <<recipes, next_base_id, next_node_id, next_facility_id>>

(* facility.set_clock_speed(v) *)
FacilitySetClockSpeed(o, v) ==
    /\ o \in FacilityObjs(bases)
    /\ LET Set == [f \in HeldFacilities(bases) |-> Facility_set_clock_speed(f, v)]
       IN  bases' = OnFacility(bases, o, Set)
    /\ returned' = None
    /\ UNCHANGED <<unlinked_nodes, recipes, next_base_id, next_node_id, next_facility_id>>

(* facility.toggle_active_state() *)
ToggleActiveState(o) ==
    /\ o \in FacilityObjs(bases)
    /\ LET Toggle == [f \in HeldFacilities(bases) |-> toggle_active_state(f)]
       IN  bases' = OnFacility(bases, o, Toggle)
    /\ returned' = None
    /\ UNCHANGED <<unlinked_nodes, recipes, next_base_id, next_node_id, next_facility_id>>

(* facility.update_recipe(recipes[r]) *)
UpdateRecipe(o, r) ==
    /\ o \in FacilityObjs(bases)
    /\ r \in 1..Len(recipes)
    /\ LET Upd == [f \in HeldFacilities(bases) |-> update_recipe(f, r, recipes)]
       IN  bases' = OnFacility(bases, o, Upd)
    /\ returned' = None
    /\ UNCHANGED <<unlinked_nodes, recipes, next_base_id, next_node_id, next_facility_id>>

(* facility.set_input_item(item, rate): input_items.append((item, rate)) *)
SetInputItem(o, item, rate) ==
    /\ o \in FacilityObjs(bases)
    /\ LET f == FacilityOf(bases, o)
           App == [g \in HeldFacilities(bases) |->
                      [g EXCEPT !.input_items.own = Append(@, <<item, rate>>)]]
       IN  /\ Len(input_items(recipes, f)) <= MaxItems
           /\ IF f.input_items.ref = 0
              THEN /\ bases' = OnFacility(bases, o, App)
                   /\ UNCHANGED recipes
              ELSE /\ recipes' = [recipes EXCEPT ![f.input_items.ref].inputs =
                                                    Append(@, <<item, rate>>)]
                   /\ UNCHANGED bases
    /\ returned' = None
    /\ UNCHANGED <<unlinked_nodes, next_base_id, next_node_id, next_facility_id>>

(* facility.set_output_item(item, rate): output_items.append((item, rate)) *)
SetOutputItem(o, item, rate) ==
    /\ o \in FacilityObjs(bases)
    /\ LET f == FacilityOf(bases, o)
           App == [g \in HeldFacilities(bases) |->
                      [g EXCEPT !.output_items.own = Append(@, <<item, rate>>)]]
       IN  /\ Len(output_items(recipes, f)) <= MaxItems
           /\ IF f.output_items.ref = 0
              THEN /\ bases' = OnFacility(bases, o, App)
                   /\ UNCHANGED recipes
              ELSE /\ recipes' = [recipes EXCEPT ![f.output_items.ref].outputs =
                                                    Append(@, <<item, rate>>)]
                   /\ UNCHANGED bases
    /\ returned' = None
    /\ UNCHANGED <<unlinked_nodes, next_base_id, next_node_id, next_facility_id>>

(* facility.get_adjusted_rates() *)
GetAdjustedRates(o) ==
    /\ o \in FacilityObjs(bases)
    /\ returned' = [name |-> "get_adjusted_rates", args |-> <<o>>,
                    ret |-> get_adjusted_rates(recipes, FacilityOf(bases, o))]
    /\ UNCHANGED <<bases, unlinked_nodes, recipes, next_base_id, next_node_id,
                   next_facility_id>>

(* the query, with the production totals booked into the ledgers as well *)
ViewProductionRates_storing ==
    /\ returned' = [name |-> "calculate_production_rates", args |-> <<>>,
                    ret |-> calculate_production_rates(bases, unlinked_nodes, recipes)]
    /\ bases' = [i \in 1..Len(bases) |->
                    [bases[i] EXCEPT !.v.storage =
                        calculate_production_rates(bases, unlinked_nodes, recipes).production]]
    /\ UNCHANGED <<unlinked_nodes, recipes, next_base_id, next_node_id, next_facility_id>>

(* view_production_rates: production_graph.calculate_production_rates() *)
ViewProductionRates ==
    /\ returned' = [name |-> "calculate_production_rates", args |-> <<>>,
                    ret |-> calculate_production_rates(bases, unlinked_nodes, recipes)]
    /\ UNCHANGED <<bases, unlinked_nodes, recipes, next_base_id, next_node_id,
                   next_facility_id>>

(* main.identify_bottlenecks: production_graph.identify_bottlenecks() *)
IdentifyBottlenecks ==
    /\ returned' = [name |-> "identify_bottlenecks", args |-> <<>>,
                    ret |-> identify_bottlenecks(bases, unlinked_nodes, recipes)]
    /\ UNCHANGED <<bases, unlinked_nodes, recipes, next_base_id, next_node_id,
                   next_facility_id>>

(* ui.view_base_production / recipe_production_planner:                    *)
(* production_graph.calculate_production_rates_for_base(base_id)           *)
ViewBaseProduction(base_id) ==
    /\ returned' = [name |-> "calculate_production_rates_for_base", args |-> <<base_id>>,
                    ret |-> calculate_production_rates_for_base(bases, recipes, base_id)]
    /\ UNCHANGED <<bases, unlinked_nodes, recipes, next_base_id, next_node_id,
                   next_facility_id>>

----------------------------------------------------------------------------
(* Calls of the container methods with an object that is already held      *)
(* (the API takes any node; nothing checks where else it is held)          *)

(* bases[base_id].add_node(node) *)
SiteAddNode(base_id, o) ==
    /\ DictHas(bases, base_id)
    /\ o \in NodeObjs(bases, unlinked_nodes)
    /\ LET node == NodeOf(bases, unlinked_nodes, o)
           Add == [base \in HeldBases(bases) |-> Base_add_node(base, node)]
       IN  bases' = OnBase(bases, base_id, Add)
    /\ returned' = None
    /\ UNCHANGED <<unlinked_nodes, recipes, next_base_id, next_node_id, next_facility_id>>

(* production_graph.add_unlinked_node(node) *)
AddUnlinkedNode(o) ==
    /\ o \in NodeObjs(bases, unlinked_nodes)
    /\ unlinked_nodes' = add_unlinked_node(unlinked_nodes, NodeOf(bases, unlinked_nodes, o))
    /\ returned' = None
    /\ UNCHANGED <<bases, recipes, next_base_id, next_node_id, next_facility_id>>

(* production_graph.remove_unlinked_node(node) *)
RemoveUnlinkedNode(o) ==
    /\ o \in NodeObjs(bases, unlinked_nodes)
    /\ unlinked_nodes' = remove_unlinked_node(unlinked_nodes, NodeOf(bases, unlinked_nodes, o))
    /\ returned' = None
    /\ UNCHANGED <<bases, recipes, next_base_id, next_node_id, next_facility_id>>

(* production_graph.delete_base(base_id) *)
DeleteBase(base_id) ==
    /\ bases' = delete_base(bases, base_id)
    /\ returned' = None
    /\ UNCHANGED <<unlinked_nodes, recipes, next_base_id, next_node_id, next_facility_id>>

(* production_graph.delete_node(node_id) *)
DeleteNode(node_id) ==
    /\ bases' = delete_node(bases, unlinked_nodes, node_id)[1]
    /\ unlinked_nodes' = delete_node(bases, unlinked_nodes, node_id)[2]
    /\ returned' = None
    /\ UNCHANGED <<recipes, next_base_id, next_node_id, next_facility_id>>

(* production_graph.delete_facility(base_id, facility_id); the call and    *)
(* its result None stay in returned                                        *)
DeleteFacility(base_id, facility_id) ==
    /\ bases' = delete_facility(bases, base_id, facility_id)
    /\ returned' = [name |-> "delete_facility", args |-> <<base_id, facility_id>>, ret |-> None.ret]
    /\ UNCHANGED <<unlinked_nodes, recipes, next_base_id, next_node_id, next_facility_id>>

(* The container methods called with an entity constructed for the call,  *)
(* under any identifier (as the unit tests do); a new object is distinct   *)
(* from every object held                                                  *)
Fresh(objs) ==
    CHOOSE o \in 1..(Cardinality(objs) + 1) : o \notin objs /\ \A p \in 1..(o - 1) : p \in objs

(* production_graph.add_base(Base(base_id, name)) *)
GraphAddBase(base_id, name) ==
    /\ bases' = add_base(bases, Base(base_id, name))
    /\ returned' = None
    /\ UNCHANGED <<unlinked_nodes, recipes, next_base_id, next_node_id, next_facility_id>>

(* bases[base_id].add_node(ResourceNode(node_id, "Iron Ore", purity, _, 60)) *)
BaseAddNewNode(base_id, node_id, purity) ==
    /\ DictHas(bases, base_id)
    /\ LET node == ResourceNode(Fresh(NodeObjs(bases, unlinked_nodes)), node_id, "Iron Ore", purity, 60)
           Add == [base \in HeldBases(bases) |-> Base_add_node(base, node)]
       IN  bases' = OnBase(bases, base_id, Add)
    /\ returned' = None
    /\ UNCHANGED <<unlinked_nodes, recipes, next_base_id, next_node_id, next_facility_id>>

(* production_graph.add_unlinked_node(ResourceNode(node_id, "Iron Ore", purity, _, 60)) *)
GraphAddNewUnlinkedNode(node_id, purity) ==
    /\ LET node == ResourceNode(Fresh(NodeObjs(bases, unlinked_nodes)), node_id, "Iron Ore", purity, 60)
       IN  unlinked_nodes' = add_unlinked_node(unlinked_nodes, node)
    /\ returned' = None
    /\ UNCHANGED <<bases, recipes, next_base_id, next_node_id, next_facility_id>>

(* bases[base_id].add_facility(Facility(facility_id, building type, recipe name)) *)
BaseAddNewFacility(base_id, facility_id, r) ==
    /\ DictHas(bases, base_id)
    /\ r \in 1..Len(recipes)
    /\ LET facility == Facility(Fresh(FacilityObjs(bases)), facility_id,
                                recipes[r].building_type, recipes[r].name)
           Add == [base \in HeldBases(bases) |-> Base_add_facility(base, facility)]
       IN  bases' = OnBase(bases, base_id, Add)
    /\ returned' = None
    /\ UNCHANGED <<unlinked_nodes, recipes, next_base_id, next_node_id, next_facility_id>>

(* ui.add_new_recipe: the name, the inputs picked until "Done" (possibly   *)
(* none) and the outputs go to game_data.add_recipe unvalidated            *)
AddNewRecipe(cap, name, building_type, inputs, outputs) ==
    /\ Len(recipes) < cap
    /\ recipes' = Append(recipes, Recipe(name, building_type, inputs, outputs))
    /\ returned' = None
    /\ UNCHANGED <<bases, unlinked_nodes, next_base_id, next_node_id, next_facility_id>>

(* ui.calculate_possible_recipes(net_production) *)
CalculatePossibleRecipes(net_production) ==
    /\ returned' = [name |-> "calculate_possible_recipes", args |-> <<net_production>>,
                    ret |-> calculate_possible_recipes(recipes, net_production)]
    /\ UNCHANGED <<bases, unlinked_nodes, recipes, next_base_id, next_node_id,
                   next_facility_id>>

(* A call of calculate_production_rates in progress, made by the tracker   *)
(* (caller "calculate_production_rates") or by identify_bottlenecks: the   *)
(* frame of the shortage loop is kept in returned until the call returns   *)
InShortagePass == returned.name = "shortage_pass"
Idle == ~InShortagePass

(* lines 46-72, up to the first test of the loop of line 75 *)
BeginShortagePass(caller) ==
    /\ Idle
    /\ returned' = [name |-> "shortage_pass", args |-> <<caller>>,
                    ret |-> shortage_frame(bases, unlinked_nodes, recipes)]
    /\ UNCHANGED <<bases, unlinked_nodes, recipes, next_base_id, next_node_id,
                   next_facility_id>>

(* one iteration of the loop of line 75 or of the loop of lines 81-82 *)
ShortagePassStep ==
    /\ InShortagePass
    /\ ~shortage_done(returned.ret)
    /\ returned' = [returned EXCEPT !.ret = shortage_step(bases, recipes, returned.ret)]
    /\ UNCHANGED <<bases, unlinked_nodes, recipes, next_base_id, next_node_id,
                   next_facility_id>>

(* line 91, or the exception leaving the method; identify_bottlenecks goes *)
(* on with lines 100-110                                                   *)
EndShortagePass ==
    /\ InShortagePass
    /\ shortage_done(returned.ret)
    /\ returned' = IF returned.args[1] = "identify_bottlenecks"
                   THEN [name |-> "identify_bottlenecks", args |-> <<>>,
                         ret |-> unpack_and_compare(returned.ret.st)]
                   ELSE [name |-> "calculate_production_rates", args |-> <<>>,
                         ret |-> returned.ret.st]
    /\ UNCHANGED <<bases, unlinked_nodes, recipes, next_base_id, next_node_id,
                   next_facility_id>>

(* bases[base_id].update_storage(item, quantity) *)
UpdateStorage(base_id, item, quantity) ==
    /\ DictHas(bases, base_id)
    /\ Abs(DictGet(DictAt(bases, base_id).storage, item, 0) + quantity) <= MaxStock
    /\ LET Update == [base \in HeldBases(bases) |-> Base_update_storage(base, item, quantity)]
       IN  bases' = OnBase(bases, base_id, Update)
    /\ returned' = None
    /\ UNCHANGED <<unlinked_nodes, recipes, next_base_id, next_node_id, next_facility_id>>

(* game_data.get_next_base_id() / get_next_node_id() /                    *)
(* get_next_facility_id(), method one of the three names; call is the      *)
(* method's result on the counters held                                    *)
GetNextId(method, call) ==
    /\ call.ret <= MaxIds
    /\ next_base_id' = call.gd.next_base_id
    /\ next_node_id' = call.gd.next_node_id
    /\ next_facility_id' = call.gd.next_facility_id
    /\ returned' = [name |-> method, args |-> <<>>, ret |-> call.ret]
    /\ UNCHANGED <<bases, unlinked_nodes, recipes>>

GetNextBaseId ==
    GetNextId("get_next_base_id",
              get_next_base_id(GameData(next_base_id, next_node_id, next_facility_id)))
GetNextNodeId ==
    GetNextId("get_next_node_id",
              get_next_node_id(GameData(next_base_id, next_node_id, next_facility_id)))
GetNextFacilityId ==
    GetNextId("get_next_facility_id",
              get_next_facility_id(GameData(next_base_id, next_node_id, next_facility_id)))

----------------------------------------------------------------------------
(* Specifications.  Each takes the handlers and the inputs its claims are  *)
(* about; all start from Init.                                             *)

Purities == {"Impure", "Normal", "Pure"}

(* clock speeds passed to set_clock_speed: -50 %, 0 %, 0.001 %, 50 %,      *)
(* 250 %, 300 %                                                            *)
ClockInputs == {0 - 50000, 0, 1, 50000, 250000, 300000}

(* clock speeds: nodes and facilities, construction, set_clock_speed and   *)
(* update_recipe                                                           *)
NextClock ==
    \/ AddNewBase(MaxUnits)
    \/ \E purity \in Purities : AddNewNode(MaxUnits, "Iron Ore", purity, 60, 0)
    \/ AddNewFacility(MaxUnits, 1, 1)
    \/ \E o \in 1..MaxUnits, v \in ClockInputs : NodeSetClockSpeed(o, v)
    \/ \E o \in 1..MaxUnits, v \in ClockInputs : FacilitySetClockSpeed(o, v)
    \/ \E o \in 1..MaxUnits : UpdateRecipe(o, 2)

SpecClock == Init /\ [][NextClock]_vars

(* one facility's methods, on facilities built from the catalog *)
NextFacility ==
    \/ AddNewBase(MaxBases)
    \/ AddNewFacility(MaxUnits, 1, 1)
    \/ \E o \in 1..MaxUnits, v \in {1, 50000} : FacilitySetClockSpeed(o, v)
    \/ \E o \in 1..MaxUnits : ToggleActiveState(o)
    \/ \E o \in 1..MaxUnits : UpdateRecipe(o, 1)
    \/ \E o \in 1..MaxUnits : SetInputItem(o, "Coal", 15)
    \/ \E o \in 1..MaxUnits : SetOutputItem(o, "Slag", 5)
    \/ \E o \in 1..MaxUnits : GetAdjustedRates(o)

SpecFacility == Init /\ [][NextFacility]_vars

(* who holds a node: the tracker's handlers and the container methods *)
NextGraph ==
    \/ AddNewBase(MaxBases)
    \/ \E choice \in 0..MaxBases : AddNewNode(MaxNodes, "Iron Ore", "Normal", 60, choice)
    \/ \E node_id \in 1..MaxNodes, base_id \in 1..MaxBases : LinkNodeToBase(node_id, base_id)
    \/ \E o \in 1..MaxNodes, base_id \in 1..MaxBases : SiteAddNode(base_id, o)
    \/ \E o \in 1..MaxNodes : AddUnlinkedNode(o)
    \/ \E o \in 1..MaxNodes : RemoveUnlinkedNode(o)
    \/ \E node_id \in 1..MaxNodes : DeleteNode(node_id)
    \/ \E base_id \in 1..MaxBases : DeleteBase(base_id)

SpecGraph == Init /\ [][NextGraph]_vars

(* the node menu of the tracker: add, overclock, link *)
LinkClocks == {1025, 2500}

NextLink ==
    \/ AddNewBase(MaxUnits)
    \/ \E choice \in 0..MaxUnits : AddNewNode(MaxNodes, "Iron Ore", "Normal", 60, choice)
    \/ \E o \in 1..MaxNodes, v \in LinkClocks : NodeSetClockSpeed(o, v)
    \/ \E node_id \in 1..MaxNodes, base_id \in 1..MaxUnits : LinkNodeToBase(node_id, base_id)
    \/ \E node_id \in 0..MaxNodes, base_id \in 0..MaxUnits : LinkNodeToBaseCancel(node_id, base_id)

SpecLink == Init /\ [][NextLink]_vars

(* removals, also with identifiers one past the last one handed out *)
NextDelete ==
    \/ AddNewBase(MaxBases)
    \/ \E choice \in 0..MaxBases : AddNewNode(MaxNodes, "Iron Ore", "Normal", 60, choice)
    \/ \E base_id \in 1..MaxBases : AddNewFacility(MaxUnits, base_id, 1)
    \/ \E o \in 1..MaxNodes : RemoveUnlinkedNode(o)
    \/ \E node_id \in 1..MaxNodes + 1 : DeleteNode(node_id)
    \/ \E base_id \in 1..MaxBases + 1 : DeleteBase(base_id)
    \/ \E base_id \in 1..MaxBases + 1, facility_id \in 1..MaxUnits + 1 :
          DeleteFacility(base_id, facility_id)

SpecDelete == Init /\ [][NextDelete]_vars

(* the container methods under chosen identifiers *)
BaseNames == {"Main Base", "Outpost"}
AddPurities == {"Normal", "Pure"}

NextAdd ==
    \/ \E base_id \in 1..MaxBases, name \in BaseNames : GraphAddBase(base_id, name)
    \/ \E base_id \in 1..MaxBases, node_id \in 1..MaxUnits, purity \in AddPurities :
          BaseAddNewNode(base_id, node_id, purity)
    \/ \E node_id \in 1..MaxUnits, purity \in AddPurities : GraphAddNewUnlinkedNode(node_id, purity)
    \/ \E base_id \in 1..MaxBases, facility_id \in 1..MaxUnits :
          BaseAddNewFacility(base_id, facility_id, 1)

SpecAdd == Init /\ [][NextAdd]_vars

(* the planner: net productions of -1, 0, 29.99 and 90 per item, over a    *)
(* catalog that may have received one more recipe: without inputs, with a  *)
(* quantity of 0, or with an input of 15 coal                              *)
PlanItems == {"Iron Ore", "Coal", "Steel Ingot"}
Amounts == {0 - 100, 0, 2999, 9000}
NetProductions == UNION {[S -> Amounts] : S \in SUBSET PlanItems}
RecipeInputs == {<<>>, << <<"Iron Ore", 0>> >>, << <<"Coal", 15>> >>}

NextPlanner ==
    \/ \E inputs \in RecipeInputs :
          AddNewRecipe(Len(RecipeBook) + MaxRecipes, "Alternate", "Smelter", inputs,
                       << <<"Iron Ingot", 30>> >>)
    \/ \E net_production \in NetProductions : CalculatePossibleRecipes(net_production)

SpecPlanner == Init /\ [][NextPlanner]_vars

(* the aggregation calls one loop iteration at a time; the tracker is      *)
(* single-threaded, so the graph changes only between calls                *)
Callers == {"calculate_production_rates", "identify_bottlenecks"}

NextPass ==
    \/ Idle /\ AddNewBase(MaxUnits)
    \/ Idle /\ AddNewNode(MaxUnits, "Iron Ore", "Normal", 60, 1)
    \/ Idle /\ \E r \in 1..Len(RecipeBook) : AddNewFacility(MaxFacilities, 1, r)
    \/ Idle /\ \E o \in 1..MaxFacilities : FacilitySetClockSpeed(o, 15)
    \/ Idle /\ \E base_id \in 1..MaxUnits + 1 : ViewBaseProduction(base_id)
    \/ \E caller \in Callers : BeginShortagePass(caller)
    \/ ShortagePassStep
    \/ EndShortagePass

SpecPass == Init /\ [][NextPass]_vars /\ WF_vars(ShortagePassStep) /\ WF_vars(EndShortagePass)

(* the storage ledgers: quantities added to and taken from two items *)
StorageItems == {"Iron Ore", "Coal"}
StorageDeltas == {0 - 1, 1, 2}

NextStorage ==
    \/ AddNewBase(MaxBases)
    \/ \E base_id \in 1..MaxBases, item \in StorageItems, quantity \in StorageDeltas :
          UpdateStorage(base_id, item, quantity)

SpecStorage == Init /\ [][NextStorage]_vars

(* aggregation over bases whose ledgers are written to *)
NextLedger ==
    \/ AddNewBase(MaxBases)
    \/ \E choice \in 0..MaxBases : AddNewNode(MaxUnits, "Iron Ore", "Normal", 60, choice)
    \/ \E base_id \in 1..MaxBases, r \in 1..2 : AddNewFacility(MaxUnits, base_id, r)
    \/ \E base_id \in 1..MaxBases, item \in StorageItems : UpdateStorage(base_id, item, MaxStock)
    \/ ViewProductionRates
    \/ \E base_id \in 1..MaxBases : ViewBaseProduction(base_id)

SpecLedger == Init /\ [][NextLedger]_vars

(* the three id counters of GameData, called in any order *)
NextIds ==
    \/ GetNextBaseId
    \/ GetNextNodeId
    \/ GetNextFacilityId

SpecIds == Init /\ [][NextIds]_vars

(* the aggregation over graphs built through the tracker: iron ore nodes   *)
(* in the pool or in any base, facilities of the catalog in the first base *)
NodeKinds == {<<"Iron Ore", "Normal">>, <<"Iron Ore", "Impure">>}

NextCalc ==
    \/ AddNewBase(MaxBases)
    \/ \E kind \in NodeKinds, choice \in 0..MaxBases :
          AddNewNode(MaxNodes, kind[1], kind[2], 60, choice)
    \/ \E r \in 1..Len(RecipeBook) : AddNewFacility(MaxFacilities, 1, r)
    \/ \E o \in 1..MaxFacilities : FacilitySetClockSpeed(o, 15)
    \/ \E o \in 1..MaxFacilities : ToggleActiveState(o)
    \/ ViewProductionRates
    \/ IdentifyBottlenecks

SpecCalc == Init /\ [][NextCalc]_vars

(* the per-base query over graphs with nodes in the pool and in any base   *)
(* and facilities in any base; base_id ranges over one id never allocated  *)
NextBase ==
    \/ AddNewBase(MaxBases)
    \/ \E kind \in NodeKinds, choice \in 0..MaxBases :
          AddNewNode(MaxNodes, kind[1], kind[2], 60, choice)
    \/ \E base_id \in 1..MaxBases, r \in 1..2 : AddNewFacility(MaxFacilities, base_id, r)
    \/ \E o \in 1..MaxFacilities : FacilitySetClockSpeed(o, 15)
    \/ \E base_id \in 1..MaxBases + 1 : ViewBaseProduction(base_id)

SpecBase == Init /\ [][NextBase]_vars

(* a query after changes to the entities the graph holds: one ore node,    *)
(* one facility, their setters, and the global query                       *)
NextRequery ==
    \/ AddNewBase(MaxUnits)
    \/ \E choice \in 0..MaxUnits : AddNewNode(MaxUnits, "Iron Ore", "Normal", 60, choice)
    \/ AddNewFacility(MaxUnits, 1, 1)
    \/ \E o \in 1..MaxUnits, v \in {50000, 250000} : NodeSetClockSpeed(o, v)
    \/ \E o \in 1..MaxUnits : FacilitySetClockSpeed(o, 50000)
    \/ \E o \in 1..MaxUnits : ToggleActiveState(o)
    \/ \E o \in 1..MaxUnits : UpdateRecipe(o, 2)
    \/ ViewProductionRates

SpecRequery == Init /\ [][NextRequery]_vars

----------------------------------------------------------------------------
(* Properties of the clock speeds (SpecClock)                              *)

(* min(250, max(0.001, v)) written out by cases *)
ClampedClock(v) ==
    IF v > MAX_CLOCK THEN MAX_CLOCK ELSE IF v < MIN_CLOCK THEN MIN_CLOCK ELSE v

ClocksInRange ==
    /\ \A n \in HeldNodes(bases, unlinked_nodes) : n.clock_speed \in MIN_CLOCK..MAX_CLOCK
    /\ \A f \in HeldFacilities(bases) : f.clock_speed \in MIN_CLOCK..MAX_CLOCK

(* set_clock_speed(v) is accepted on every held object for every v and    *)
(* leaves the clamp of v stored                                            *)
SetClockStoresClamp ==
    \A v \in ClockInputs :
        /\ \A n \in HeldNodes(bases, unlinked_nodes) :
              ENABLED (/\ NodeSetClockSpeed(n.obj, v)
                       /\ NodeOf(bases', unlinked_nodes', n.obj).clock_speed = ClampedClock(v))
        /\ \A f \in HeldFacilities(bases) :
              ENABLED (/\ FacilitySetClockSpeed(f.obj, v)
                       /\ FacilityOf(bases', f.obj).clock_speed = ClampedClock(v))

(* a second call with the same v leaves the object as the first left it *)
SetClockIdempotent ==
    \A v \in ClockInputs :
        /\ \A n \in HeldNodes(bases, unlinked_nodes) :
              ResourceNode_set_clock_speed(ResourceNode_set_clock_speed(n, v), v)
                  = ResourceNode_set_clock_speed(n, v)
        /\ \A f \in HeldFacilities(bases) :
              Facility_set_clock_speed(Facility_set_clock_speed(f, v), v)
                  = Facility_set_clock_speed(f, v)

(* C1: after any sequence of construction, set_clock_speed(v) and          *)
(* update_recipe, the stored clock speed of every node and every facility  *)
(* lies in [0.001, 250]; set_clock_speed(v) never fails and stores         *)
(* min(250, max(0.001, v)), so v > 250 stores 250 and v <= 0 stores 0.001, *)
(* and repeating the same call changes nothing further.                    *)
C1_ClockSpeedClamped == ClocksInRange /\ SetClockStoresClamp /\ SetClockIdempotent

(* a node clamped from above to 250 % next to a facility clamped from      *)
(* below to 0.001 %                                                        *)
C1_Witness ==
    /\ \E n \in HeldNodes(bases, unlinked_nodes) : n.clock_speed = MAX_CLOCK
    /\ \E f \in HeldFacilities(bases) : f.clock_speed = MIN_CLOCK

(* purity multiplier in tenths: Impure 0.5, Normal 1, Pure 2 *)
PurityTenths(purity) ==
    CASE purity = "Impure" -> 5
      [] purity = "Normal" -> 10
      [] purity = "Pure" -> 20

(* C2: after construction and after any sequence of set_clock_speed calls  *)
(* the cached output_rate of every node equals                             *)
(* multiplier(purity) * miner_rate * stored clock_speed / 100, multiplier  *)
(* Impure 0.5, Normal 1, Pure 2: the cache is never stale.                 *)
C2_OutputRateCached ==
    \A n \in HeldNodes(bases, unlinked_nodes) :
        n.output_rate * 10
            = PurityTenths(n.purity) * n.miner_rate * n.clock_speed
                  * (OUTPUT_DEN \div DEFAULT_CLOCK)

(* an Impure node of miner rate 60 overclocked to 250 %: 0.5 * 60 * 2.5 = 75 *)
C2_Witness ==
    \E n \in HeldNodes(bases, unlinked_nodes) :
        /\ n.purity = "Impure" /\ n.miner_rate = 60 /\ n.clock_speed = MAX_CLOCK
        /\ n.output_rate = 75 * OUTPUT_DEN

----------------------------------------------------------------------------
(* Properties of one facility (SpecFacility)                               *)

(* every entry of the returned list is the stored entry at the same        *)
(* position, rate times clock_speed / 100 (returned rates in 1/ADJUST_DEN) *)
SameItemsScaled(adjusted, stored, clock_speed) ==
    /\ Len(adjusted) = Len(stored)
    /\ \A i \in 1..Len(stored) :
          /\ adjusted[i][1] = stored[i][1]
          /\ adjusted[i][2] = stored[i][2] * clock_speed * (ADJUST_DEN \div DEFAULT_CLOCK)

(* C3: get_adjusted_rates() returns ([], []) whenever the facility is      *)
(* inactive, whatever its clock speed and stored items; when active it     *)
(* returns the stored input and output lists with the same items in the    *)
(* same order, each rate multiplied by clock_speed / 100.                  *)
C3_AdjustedRates ==
    returned.name = "get_adjusted_rates" =>
        LET f == FacilityOf(bases, returned.args[1])
        IN  IF ~f.is_active
            THEN returned.ret = << <<>>, <<>> >>
            ELSE /\ SameItemsScaled(returned.ret[1], input_items(recipes, f), f.clock_speed)
                 /\ SameItemsScaled(returned.ret[2], output_items(recipes, f), f.clock_speed)

(* an inactive facility at 50 % with two stored inputs and a stored output *)
C3_Witness ==
    /\ returned.name = "get_adjusted_rates"
    /\ LET f == FacilityOf(bases, returned.args[1])
       IN  /\ ~f.is_active
           /\ f.clock_speed = 50000
           /\ Len(input_items(recipes, f)) = 2
           /\ Len(output_items(recipes, f)) >= 1
    /\ returned.ret = << <<>>, <<>> >>

(* C14: update_recipe(new_recipe) on a facility replaces the recipe name   *)
(* and both item lists with those of new_recipe (no item of the previous   *)
(* recipe remains, nothing is merged) and resets the clock speed to 100,   *)
(* whatever the previous clock speed; the active flag, identifier and      *)
(* facility type are unchanged.                                            *)
C14_UpdateRecipe ==
    \A f \in HeldFacilities(bases), r \in 1..Len(recipes) :
        ENABLED (/\ UpdateRecipe(f.obj, r)
                 /\ LET g == FacilityOf(bases', f.obj)
                    IN  /\ g.recipe = recipes[r].name
                        /\ input_items(recipes', g) = recipes[r].inputs
                        /\ output_items(recipes', g) = recipes[r].outputs
                        /\ g.clock_speed = DEFAULT_CLOCK
                        /\ g.is_active = f.is_active
                        /\ g.facility_id = f.facility_id
                        /\ g.facility_type = f.facility_type)

(* an inactive facility that was given the catalog recipe "Iron Ingot":    *)
(* it holds the recipe's lists and runs at 100 %                           *)
C14_Witness ==
    \E f \in HeldFacilities(bases) :
        /\ f.input_items.ref = 1 /\ f.output_items.ref = 1
        /\ f.recipe = "Iron Ingot"
        /\ f.clock_speed = DEFAULT_CLOCK
        /\ ~f.is_active

(* C15: toggle_active_state() flips only the active flag: the stored      *)
(* clock speed, recipe name and input/output lists are unchanged, and      *)
(* toggling twice restores the same get_adjusted_rates() result as before  *)
(* the first toggle.                                                       *)
C15_ToggleFlipsOnlyFlag ==
    \A f \in HeldFacilities(bases) :
        /\ ENABLED (/\ ToggleActiveState(f.obj)
                    /\ LET g == FacilityOf(bases', f.obj)
                       IN  /\ g.is_active = ~f.is_active
                           /\ g = [f EXCEPT !.is_active = g.is_active]
                           /\ input_items(recipes', g) = input_items(recipes, f)
                           /\ output_items(recipes', g) = output_items(recipes, f))
        /\ get_adjusted_rates(recipes, toggle_active_state(toggle_active_state(f)))
              = get_adjusted_rates(recipes, f)
        /\ toggle_active_state(toggle_active_state(f)) = f

(* a facility switched off while underclocked to 50 % with an extra input *)
C15_Witness ==
    \E f \in HeldFacilities(bases) :
        /\ ~f.is_active
        /\ f.clock_speed = 50000
        /\ Len(input_items(recipes, f)) = 2
        /\ get_adjusted_rates(recipes, f) = <<<<>>, <<>>>>
        /\ get_adjusted_rates(recipes, toggle_active_state(f))[1]
              = <<<<"Iron Ore", 1500000>>, <<"Coal", 750000>>>>

(* C10: the core never mutates the catalog: after update_recipe(r) on a    *)
(* facility followed by any sequence of set_input_item, set_output_item,   *)
(* set_clock_speed and toggle_active_state, the input and output lists of  *)
(* every catalog recipe are what they were.                                *)
C10_CatalogNeverMutated ==
    \A r \in 1..Len(RecipeBook) :
        /\ recipes[r].inputs = RecipeBook[r].inputs
        /\ recipes[r].outputs = RecipeBook[r].outputs

----------------------------------------------------------------------------
(* Properties of the ownership of nodes (SpecGraph)                        *)

(* the places that hold node object o: <<base_id, position>> in a base's   *)
(* node map, <<0, position>> in the unlinked pool                          *)
Holders(o) ==
    UNION {{<<bases[i].k, j>> : j \in {j \in 1..Len(bases[i].v.nodes) :
                                          bases[i].v.nodes[j].v.obj = o}} :
              i \in 1..Len(bases)}
    \cup {<<0, j>> : j \in {j \in 1..Len(unlinked_nodes) : unlinked_nodes[j].v.obj = o}}

(* C9: after any sequence of add_base, Base.add_node, add_unlinked_node,   *)
(* remove_unlinked_node, linking a node to a base, delete_node and         *)
(* delete_base, every node reachable from the graph is held by exactly one *)
(* owner: one base's node map or the unlinked pool, never a base and the   *)
(* pool at once and never two bases.                                       *)
C9_SingleOwner ==
    \A o \in NodeObjs(bases, unlinked_nodes) : Cardinality(Holders(o)) = 1

----------------------------------------------------------------------------
(* Properties of the aggregation (SpecCalc)                                *)

Items ==
    {kind[1] : kind \in NodeKinds} \cup
    UNION {{RecipeBook[r].inputs[i][1] : i \in 1..Len(RecipeBook[r].inputs)} \cup
           {RecipeBook[r].outputs[i][1] : i \in 1..Len(RecipeBook[r].outputs)} :
              r \in 1..Len(RecipeBook)}

RECURSIVE SumSeq(_)
SumSeq(s) == IF s = <<>> THEN 0 ELSE Head(s) + SumSeq(Tail(s))

(* n / d >= 0 to the nearest unit, halves up *)
HalfUp(n, d) == (2 * n + d) \div (2 * d)

(* every node of every base and every node of the pool *)
AllNodes == BaseNodes(bases) \o DictValues(unlinked_nodes)
AllFacilities == BaseFacilities(bases)

(* what a running total rounded after each addition has gained from one    *)
(* rate: the rate to the nearest hundredth                                 *)
NodeShare(R) ==
    SumSeq([i \in 1..Len(AllNodes) |->
              IF AllNodes[i].resource_type = R
              THEN HalfUp(AllNodes[i].output_rate, OUTPUT_DEN \div CENTS) ELSE 0])
ItemShare(list, clock_speed, R) ==
    SumSeq([i \in 1..Len(list) |->
              IF list[i][1] = R
              THEN HalfUp(list[i][2] * clock_speed, DEFAULT_CLOCK \div CENTS) ELSE 0])
OutputShare(R) ==
    SumSeq([i \in 1..Len(AllFacilities) |->
              IF AllFacilities[i].is_active
              THEN ItemShare(output_items(recipes, AllFacilities[i]),
                             AllFacilities[i].clock_speed, R)
              ELSE 0])
InputShare(R) ==
    SumSeq([i \in 1..Len(AllFacilities) |->
              IF AllFacilities[i].is_active
              THEN ItemShare(input_items(recipes, AllFacilities[i]),
                             AllFacilities[i].clock_speed, R)
              ELSE 0])

ListsItem(list, R) == \E i \in 1..Len(list) : list[i][1] = R
Produced(R) ==
    \/ \E i \in 1..Len(AllNodes) : AllNodes[i].resource_type = R
    \/ \E i \in 1..Len(AllFacilities) :
          AllFacilities[i].is_active /\ ListsItem(output_items(recipes, AllFacilities[i]), R)
Consumed(R) ==
    \E i \in 1..Len(AllFacilities) :
        AllFacilities[i].is_active /\ ListsItem(input_items(recipes, AllFacilities[i]), R)

ProductionSum(R) == NodeShare(R) + OutputShare(R)

(* the map holds exactly the produced resources, each with its sum *)
IsProductionSums(map) ==
    /\ Len(map) = Cardinality(DictKeys(map))
    /\ DictKeys(map) = {R \in Items : Produced(R)}
    /\ \A R \in DictKeys(map) : DictAt(map, R) = ProductionSum(R)

(* the map holds exactly the consumed resources, each with its sum *)
IsConsumptionSums(map) ==
    /\ Len(map) = Cardinality(DictKeys(map))
    /\ DictKeys(map) = {R \in Items : Consumed(R)}
    /\ \A R \in DictKeys(map) : DictAt(map, R) = InputShare(R)

(* C4: in the first two passes of calculate_production_rates the           *)
(* production total of each resource is the sum of output_rate over every  *)
(* node of every base and of the unlinked pool plus the adjusted output    *)
(* rates of every facility, the consumption total is the sum of the        *)
(* adjusted input rates of every facility, each running total rounded      *)
(* half-up to 2 decimals after each addition; when no resource's           *)
(* consumption exceeds its production these totals are returned unchanged  *)
(* and the limiting-factors map is empty.                                  *)
C4_TotalsAreRoundedSums ==
    /\ IsProductionSums(Totals(bases, unlinked_nodes, recipes).production)
    /\ IsConsumptionSums(Totals(bases, unlinked_nodes, recipes).consumption)
    /\ (/\ returned.name = "calculate_production_rates"
        /\ \A R \in Items : ~(InputShare(R) > ProductionSum(R)))
          => /\ returned.ret.raised = ""
             /\ IsProductionSums(returned.ret.production)
             /\ IsConsumptionSums(returned.ret.consumption)
             /\ returned.ret.limiting_factors = <<>>

(* one Normal node of rate 60 and one facility 30 -> 30: production        *)
(* {Iron Ore 60, Iron Ingot 30}, consumption {Iron Ore 30}, no limiting    *)
(* factor                                                                  *)
C4_Witness ==
    /\ returned.name = "calculate_production_rates"
    /\ returned.ret.raised = ""
    /\ DictAsSet(returned.ret.production) = {<<"Iron Ore", 6000>>, <<"Iron Ingot", 3000>>}
    /\ DictAsSet(returned.ret.consumption) = {<<"Iron Ore", 3000>>}
    /\ returned.ret.limiting_factors = <<>>

(* the shortage pass before and after its k-th visit *)
Consumption == Totals(bases, unlinked_nodes, recipes).consumption
Before(k) == ShortagePass(bases, unlinked_nodes, recipes, k - 1)
After(k) == ShortagePass(bases, unlinked_nodes, recipes, k)

(* round(production / consumption, 4) in ten-thousandths, consumption > 0 *)
Ratio(production, consumption) == round_float(production * RATIO_DEN, consumption)

(* the adjusted rates of the outputs X of the active facilities that list  *)
(* R among their inputs, facility by facility in the order of the graph    *)
CutRates(R, X) ==
    Flatten([i \in 1..Len(AllFacilities) |->
        LET f == AllFacilities[i]
            outs == SelectSeq(output_items(recipes, f), LAMBDA e : e[1] = X)
        IN  IF f.is_active /\ ListsItem(input_items(recipes, f), R)
            THEN [j \in 1..Len(outs) |-> outs[j][2] * f.clock_speed]
            ELSE <<>>])

(* p less rate * (1 - ratio) for each rate in turn, rounded to hundredths  *)
(* after each subtraction; w = 1 - ratio in ten-thousandths                *)
RECURSIVE AfterCuts(_, _, _)
AfterCuts(p, rates, w) ==
    IF rates = <<>> THEN p
    ELSE AfterCuts(round_float_sub(p, CutAmount(Head(rates), w)), Tail(rates), w)

(* the k-th visit of the pass did what is specified for its resource *)
VisitAsSpecified(k) ==
    LET R == Consumption[k].k
        c == Consumption[k].v
        p == DictGet(Before(k).production, R, 0)
    IN  IF c > p
        THEN /\ c > 0
             /\ After(k).raised = ""
             /\ \A X \in Items :
                   /\ DictHas(After(k).production, X) <=> DictHas(Before(k).production, X)
                   /\ DictGet(After(k).production, X, 0)
                         = AfterCuts(DictGet(Before(k).production, X, 0), CutRates(R, X),
                                     RATIO_DEN - Ratio(p, c))
        ELSE After(k).production = Before(k).production

(* C5: in the shortage pass, for every resource R whose consumption total  *)
(* exceeds its production total, with ratio = round(production[R] /        *)
(* consumption[R], 4), every active facility that lists R among its inputs *)
(* has each of its output contributions to the production total reduced by *)
(* adjusted_output_rate * (1 - ratio), rounded to 2 decimals after each    *)
(* subtraction; the contributions of the other facilities are unchanged.   *)
C5_ShortageCuts ==
    returned.name = "calculate_production_rates" =>
        \A k \in 1..Len(Consumption) : Before(k).raised = "" => VisitAsSpecified(k)

(* the resources short in the totals of steps 1-2 *)
ShortInTotals ==
    LET tot == Totals(bases, unlinked_nodes, recipes)
    IN  {R \in Items : DictGet(tot.consumption, R, 0) > DictGet(tot.production, R, 0)}

(* the resources whose visit took the branch of line 76 *)
TreatedAsShort ==
    {Consumption[k].k : k \in {j \in 1..Len(Consumption) :
        /\ Before(j).raised = ""
        /\ Consumption[j].v > DictGet(Before(j).production, Consumption[j].k, 0)}}

(* C6: the shortage pass is a single pass: the resources treated as short   *)
(* are exactly those whose consumption exceeds production in the totals of *)
(* steps 1-2; a resource that falls short only through cuts made earlier   *)
(* in the pass is not treated as short, causes no further cut and adds no  *)
(* limiting-factor entry.                                                  *)
C6_SinglePass ==
    returned.name = "calculate_production_rates" =>
        /\ TreatedAsShort = ShortInTotals
        /\ \A i \in 1..Len(returned.ret.limiting_factors) :
              \A j \in 1..Len(returned.ret.limiting_factors[i].v) :
                  returned.ret.limiting_factors[i].v[j] \in ShortInTotals

(* C7: calculate_production_rates never divides by zero: the ratio         *)
(* production / consumption is computed only for a resource whose          *)
(* consumption total is strictly positive.                                 *)
C7_NoDivisionByZero ==
    returned.name = "calculate_production_rates" =>
        /\ \A k \in 1..Len(Consumption) :
              (/\ Before(k).raised = ""
               /\ Consumption[k].v > DictGet(Before(k).production, Consumption[k].k, 0))
                  => Consumption[k].v > 0
        /\ returned.ret.raised # "ZeroDivisionError"

(* C8: identify_bottlenecks() returns a map that contains resource R with  *)
(* value d exactly when d = round(consumption[R] - production[R], 2) > 0,  *)
(* over the maps computed by calculate_production_rates; a balanced or     *)
(* surplus resource never appears and no entry has value 0.                *)
C8_Bottlenecks ==
    returned.name = "identify_bottlenecks" =>
        LET res == calculate_production_rates(bases, unlinked_nodes, recipes)
            d(R) == DictGet(res.consumption, R, 0) - DictGet(res.production, R, 0)
        IN  /\ returned.ret.raised = ""
            /\ res.raised = "" =>
                  returned.ret.bottlenecks = {<<R, d(R)>> : R \in {X \in Items : d(X) > 0}}

(* resource R is listed for item X in a limiting-factors map *)
Listed(limiting_factors, R, X) ==
    /\ DictHas(limiting_factors, X)
    /\ \E j \in 1..Len(DictAt(limiting_factors, X)) : DictAt(limiting_factors, X)[j] = R

(* some active facility lists R among its inputs and X among its outputs *)
Converts(R, X) ==
    \E i \in 1..Len(AllFacilities) :
        /\ AllFacilities[i].is_active
        /\ ListsItem(input_items(recipes, AllFacilities[i]), R)
        /\ ListsItem(output_items(recipes, AllFacilities[i]), X)

(* C12: the limiting-factors map returned by calculate_production_rates    *)
(* lists resource R for item X if and only if R's consumption exceeds its  *)
(* production and some active facility lists R among its inputs and X      *)
(* among its outputs; an item whose facility has several short inputs      *)
(* lists each of them, and an entry recorded during the pass is never      *)
(* removed later in the same pass.  (Short is read in favour of the code:  *)
(* a listed R is short in the step 1-2 totals or at its visit, and an R    *)
(* short in both senses must be listed.)                                   *)
C12_LimitingFactors ==
    (returned.name = "calculate_production_rates" /\ returned.ret.raised = "") =>
        /\ \A R \in Items, X \in Items :
              /\ Listed(returned.ret.limiting_factors, R, X)
                    => (R \in ShortInTotals \cup TreatedAsShort /\ Converts(R, X))
              /\ (R \in ShortInTotals \cap TreatedAsShort /\ Converts(R, X))
                    => Listed(returned.ret.limiting_factors, R, X)
        /\ \A k \in 1..Len(Consumption), R \in Items, X \in Items :
              Listed(After(k).limiting_factors, R, X)
                  => Listed(returned.ret.limiting_factors, R, X)


(* C25: for every graph in which all node base rates and all Converter     *)
(* input and output rates are non-negative, every value of the production  *)
(* map returned by calculate_production_rates is >= 0, also when a         *)
(* Converter has two or more inputs that are short at the same time and    *)
(* its outputs are cut once per short input.                               *)
NonNegativeRates ==
    /\ \A i \in 1..Len(AllNodes) : AllNodes[i].miner_rate >= 0
    /\ \A i \in 1..Len(AllFacilities) :
          /\ \A j \in 1..Len(input_items(recipes, AllFacilities[i])) :
                input_items(recipes, AllFacilities[i])[j][2] >= 0
          /\ \A j \in 1..Len(output_items(recipes, AllFacilities[i])) :
                output_items(recipes, AllFacilities[i])[j][2] >= 0

C25_ProductionNonNegative ==
    (/\ returned.name = "calculate_production_rates"
     /\ returned.ret.raised = ""
     /\ NonNegativeRates)
        => \A i \in 1..Len(returned.ret.production) : returned.ret.production[i].v >= 0

(* C27: an inactive Converter is invisible to aggregation:                 *)
(* calculate_production_rates (production, consumption, shortage cuts and  *)
(* limiting factors) and calculate_production_rates_for_base return the    *)
(* same result as for the graph with that Converter deleted by             *)
(* delete_facility, even when the inactive Converter lists a short         *)
(* resource as an input.                                                   *)
C27_InactiveInvisible ==
    \A i \in 1..Len(bases) :
        \A j \in 1..Len(bases[i].v.facilities) :
            ~bases[i].v.facilities[j].v.is_active =>
                LET without == delete_facility(bases, bases[i].k, bases[i].v.facilities[j].k)
                IN  /\ without # bases
                    /\ calculate_production_rates(without, unlinked_nodes, recipes)
                          = calculate_production_rates(bases, unlinked_nodes, recipes)
                    /\ \A base_id \in 1..MaxBases + 1 :
                          calculate_production_rates_for_base(without, recipes, base_id)
                              = calculate_production_rates_for_base(bases, recipes, base_id)
                    /\ returned.name = "calculate_production_rates"
                          => returned.ret
                                = calculate_production_rates(without, unlinked_nodes, recipes)

(* an active smelter short of iron ore next to a foundry that is switched  *)
(* off: the ingot output is cut, and steel appears nowhere                 *)
C27_Witness ==
    /\ returned.name = "calculate_production_rates"
    /\ returned.ret.raised = ""
    /\ "Iron Ore" \in ShortInTotals
    /\ \E i \in 1..Len(AllFacilities) :
          ~AllFacilities[i].is_active /\ AllFacilities[i].recipe = "Steel Ingot"
    /\ \E i \in 1..Len(AllFacilities) :
          AllFacilities[i].is_active /\ AllFacilities[i].recipe = "Iron Ingot"
    /\ DictKeys(returned.ret.production) = {"Iron Ingot"}
    /\ DictKeys(returned.ret.limiting_factors) = {"Iron Ore", "Iron Ingot"}

(* C19: the shortage pass of calculate_production_rates never changes the  *)
(* consumption map: the consumption returned for every resource equals the *)
(* step-2 consumption total, also for a Converter whose outputs were cut   *)
(* because one of its inputs is short (its consumption of its other inputs *)
(* is not reduced).                                                        *)
C19_ConsumptionUntouched ==
    /\ \A k \in 0..Len(Consumption) : After(k).consumption = Consumption
    /\ (returned.name = "calculate_production_rates" /\ returned.ret.raised = "")
          => /\ returned.ret.consumption = Consumption
             /\ IsConsumptionSums(returned.ret.consumption)

(* a Normal node of rate 60 and a foundry: coal is short, the steel output *)
(* is cut to 0 and the foundry still consumes 45 iron ore                  *)
C19_Witness ==
    /\ returned.name = "calculate_production_rates"
    /\ returned.ret.raised = ""
    /\ DictAsSet(returned.ret.consumption) = {<<"Iron Ore", 4500>>, <<"Coal", 4500>>}
    /\ DictAsSet(returned.ret.production) = {<<"Iron Ore", 6000>>, <<"Steel Ingot", 0>>}
    /\ DictAsSet(returned.ret.limiting_factors)
          = {<<"Coal", <<>> >>, <<"Steel Ingot", <<"Coal">> >>}

----------------------------------------------------------------------------
(* Properties of the per-base query (SpecBase)                             *)

(* the sum over the nodes of `nodes` that yield R, each rate to the        *)
(* nearest hundredth                                                       *)
ShareOfNodes(nodes, R) ==
    SumSeq([i \in 1..Len(nodes) |->
              IF nodes[i].resource_type = R
              THEN HalfUp(nodes[i].output_rate, OUTPUT_DEN \div CENTS) ELSE 0])
ShareOfOutputs(facilities, R) ==
    SumSeq([i \in 1..Len(facilities) |->
              IF facilities[i].is_active
              THEN ItemShare(output_items(recipes, facilities[i]),
                             facilities[i].clock_speed, R)
              ELSE 0])
ShareOfInputs(facilities, R) ==
    SumSeq([i \in 1..Len(facilities) |->
              IF facilities[i].is_active
              THEN ItemShare(input_items(recipes, facilities[i]),
                             facilities[i].clock_speed, R)
              ELSE 0])

YieldedBy(nodes, R) == \E i \in 1..Len(nodes) : nodes[i].resource_type = R
OutputOf(facilities, R) ==
    \E i \in 1..Len(facilities) :
        facilities[i].is_active /\ ListsItem(output_items(recipes, facilities[i]), R)
InputOf(facilities, R) ==
    \E i \in 1..Len(facilities) :
        facilities[i].is_active /\ ListsItem(input_items(recipes, facilities[i]), R)

(* the map holds exactly the resources of `present`, each with its sum *)
IsSums(map, present, sum) ==
    /\ Len(map) = Cardinality(DictKeys(map))
    /\ DictKeys(map) = present
    /\ \A R \in present : DictAt(map, R) = sum[R]

(* C11: calculate_production_rates_for_base(b) for an existing base b      *)
(* accumulates only the nodes and facilities of b, with the rounding of    *)
(* the global steps 1-2, never a node of the unlinked pool nor an entity   *)
(* of another base, and never applies the shortage discount; for a base id *)
(* that is not in the graph it returns two empty maps.                     *)
C11_BaseTotals ==
    returned.name = "calculate_production_rates_for_base" =>
        LET b == returned.args[1]
        IN  IF ~DictHas(bases, b)
            THEN returned.ret = [production |-> <<>>, consumption |-> <<>>]
            ELSE LET nodes == DictValues(DictAt(bases, b).nodes)
                     facilities == DictValues(DictAt(bases, b).facilities)
                 IN  /\ IsSums(returned.ret.production,
                               {R \in Items : YieldedBy(nodes, R) \/ OutputOf(facilities, R)},
                               [R \in Items |-> ShareOfNodes(nodes, R)
                                                  + ShareOfOutputs(facilities, R)])
                     /\ IsSums(returned.ret.consumption,
                               {R \in Items : InputOf(facilities, R)},
                               [R \in Items |-> ShareOfInputs(facilities, R)])

(* base 1 holds one smelter and no node, so Iron Ore is short in it, while *)
(* the pool holds an ore node and base 2 holds a facility: the smelter's   *)
(* output is reported undiscounted and nothing else is counted             *)
C11_Witness ==
    /\ returned.name = "calculate_production_rates_for_base"
    /\ returned.args = <<1>>
    /\ unlinked_nodes # <<>>
    /\ DictHas(bases, 2) /\ DictAt(bases, 2).facilities # <<>>
    /\ DictAsSet(returned.ret.production) = {<<"Iron Ingot", 3000>>}
    /\ DictAsSet(returned.ret.consumption) = {<<"Iron Ore", 3000>>}

----------------------------------------------------------------------------
(* Properties of a query after changes (SpecRequery)                       *)

(* the node with its rate computed anew from purity, miner rate and the    *)
(* stored clock speed                                                      *)
Recomputed(n) ==
    [n EXCEPT !.output_rate =
        (PurityTenths(n.purity) * n.miner_rate * n.clock_speed
            * (OUTPUT_DEN \div DEFAULT_CLOCK)) \div 10]
RecomputedNodes(d) == [i \in 1..Len(d) |-> [k |-> d[i].k, v |-> Recomputed(d[i].v)]]
RecomputedBases ==
    [i \in 1..Len(bases) |->
        [k |-> bases[i].k, v |-> [bases[i].v EXCEPT !.nodes = RecomputedNodes(@)]]]

(* C13: after any sequence of Facility.set_clock_speed,                    *)
(* toggle_active_state, update_recipe and ResourceNode.set_clock_speed on  *)
(* entities held by the graph, the next calculate_production_rates result  *)
(* equals the result computed from the entities' current clock speeds,     *)
(* active flags and item lists: no rate from before the change is reused.  *)
C13_NoStaleRate ==
    returned.name = "calculate_production_rates" =>
        /\ returned.ret
              = calculate_production_rates(RecomputedBases, RecomputedNodes(unlinked_nodes),
                                           recipes)
        /\ \A R \in Items : DictGet(returned.ret.consumption, R, 0) = InputShare(R)
        /\ ShortInTotals \cup TreatedAsShort = {}
              => \A R \in Items :
                    DictGet(returned.ret.production, R, 0)
                        = ShareOfNodes([i \in 1..Len(AllNodes) |-> Recomputed(AllNodes[i])], R)
                              + OutputShare(R)

(* a smelter set from 100 % to 50 % and a node set to 250 %: the query     *)
(* shows the halved 15 / 15 and the node's 150                             *)
C13_Witness ==
    /\ returned.name = "calculate_production_rates"
    /\ \E f \in HeldFacilities(bases) : f.clock_speed = 50000 /\ f.is_active
    /\ \E n \in HeldNodes(bases, unlinked_nodes) : n.clock_speed = MAX_CLOCK
    /\ DictAsSet(returned.ret.production) = {<<"Iron Ore", 15000>>, <<"Iron Ingot", 1500>>}
    /\ DictAsSet(returned.ret.consumption) = {<<"Iron Ore", 1500>>}

(* C17: delete_node(id) removes at most one entry: if some Site's node map *)
(* contains id it removes it from the first such Site in Site order and    *)
(* leaves the unlinked pool and every other Site unchanged; only when no   *)
(* Site contains id does it remove id from the unlinked pool.              *)
Without(d, key) == SelectSeq(d, LAMBDA e : e.k # key)

SitesWith(node_id) == {i \in 1..Len(bases) : DictHas(bases[i].v.nodes, node_id)}

C17_DeleteNodeFirstSite ==
    \A node_id \in 1..MaxNodes + 1 :
        ENABLED (/\ DeleteNode(node_id)
                 /\ IF SitesWith(node_id) # {}
                    THEN \E first \in SitesWith(node_id) :
                            /\ \A j \in SitesWith(node_id) : first <= j
                            /\ unlinked_nodes' = unlinked_nodes
                            /\ Len(bases') = Len(bases)
                            /\ \A i \in 1..Len(bases) :
                                  bases'[i] = IF i = first
                                              THEN [bases[i] EXCEPT !.v.nodes = Without(@, node_id)]
                                              ELSE bases[i]
                    ELSE /\ bases' = bases
                         /\ unlinked_nodes' = Without(unlinked_nodes, node_id))

(* node 1 is held by both bases and by the pool, and delete_node(1) takes  *)
(* it out of base 1 only                                                   *)
C17_Witness ==
    /\ Len(bases) = 2
    /\ SitesWith(1) = {1, 2}
    /\ DictHas(unlinked_nodes, 1)
    /\ ENABLED (/\ DeleteNode(1)
                /\ ~DictHas(bases'[1].v.nodes, 1)
                /\ DictHas(bases'[2].v.nodes, 1)
                /\ DictHas(unlinked_nodes', 1))

----------------------------------------------------------------------------
(* SpecDelete: removals by identifier *)

Untouched == bases' = bases /\ unlinked_nodes' = unlinked_nodes /\ returned'.ret = None.ret

NodeIdHeld(node_id) ==
    \/ DictHas(unlinked_nodes, node_id)
    \/ \E i \in 1..Len(bases) : DictHas(bases[i].v.nodes, node_id)

(* C16: delete_base, delete_node, delete_facility(base_id, facility_id)    *)
(* and remove_unlinked_node called with an identifier that is not present  *)
(* (for delete_facility: either the base or the facility absent) raise     *)
(* nothing, return nothing, and leave every Site map and the unlinked pool *)
(* exactly as they were.                                                   *)
C16_AbsentIsNoOp ==
    /\ \A base_id \in 1..MaxBases + 1 :
          ~DictHas(bases, base_id) => ENABLED (DeleteBase(base_id) /\ Untouched)
    /\ \A node_id \in 1..MaxNodes + 1 :
          ~NodeIdHeld(node_id) => ENABLED (DeleteNode(node_id) /\ Untouched)
    /\ \A base_id \in 1..MaxBases + 1, facility_id \in 1..MaxUnits + 1 :
          (~DictHas(bases, base_id) \/ ~DictHas(DictAt(bases, base_id).facilities, facility_id))
             => ENABLED (DeleteFacility(base_id, facility_id) /\ Untouched)
    /\ \A n \in HeldNodes(bases, unlinked_nodes) :
          ~DictHas(unlinked_nodes, n.node_id)
             => ENABLED (RemoveUnlinkedNode(n.obj) /\ Untouched)

(* delete_facility(1, 1) was called after base 1 was deleted, while base 2 *)
(* holds facility 1 and a node that is not in the pool                     *)
C16_Witness ==
    /\ returned.name = "delete_facility" /\ returned.args = <<1, 1>>
    /\ ~DictHas(bases, 1)
    /\ DictHas(bases, 2)
    /\ DictHas(DictAt(bases, 2).facilities, 1)
    /\ DictKeys(DictAt(bases, 2).nodes) # {}
    /\ unlinked_nodes = <<>>

----------------------------------------------------------------------------
(* SpecAdd: the container methods *)

(* d2 is d with val stored under key: val is there, the size grew only if  *)
(* key was new, no key is held twice, every other entry is as it was       *)
PutInto(d, d2, key, val) ==
    /\ DictHas(d2, key) /\ DictAt(d2, key) = val
    /\ Len(d2) = Len(d) + (IF DictHas(d, key) THEN 0 ELSE 1)
    /\ Cardinality(DictKeys(d2)) = Len(d2)
    /\ \A i \in 1..Len(d) :
          d[i].k # key => DictHas(d2, d[i].k) /\ DictAt(d2, d[i].k) = d[i].v

NewNode(node_id, purity) ==
    ResourceNode(Fresh(NodeObjs(bases, unlinked_nodes)), node_id, "Iron Ore", purity, 60)

NewFacility(facility_id, r) ==
    Facility(Fresh(FacilityObjs(bases)), facility_id, recipes[r].building_type, recipes[r].name)

(* C18: Site.add_node and Site.add_facility (and ProductionGraph.add_base, *)
(* add_unlinked_node) are insert-or-replace by identifier: after the call  *)
(* the map holds exactly the given entity under its id, a second add with  *)
(* the same id replaces the first without error and without changing the   *)
(* size of the map, and entries under other ids are unchanged.             *)
C18_InsertOrReplace ==
    /\ \A base_id \in 1..MaxBases + 1, name \in BaseNames :
          PutInto(bases, add_base(bases, Base(base_id, name)), base_id, Base(base_id, name))
    /\ \A node \in {NewNode(node_id, purity) : node_id \in 1..MaxUnits + 1, purity \in AddPurities} :
          /\ PutInto(unlinked_nodes, add_unlinked_node(unlinked_nodes, node),
                     node.node_id, node)
          /\ \A base \in HeldBases(bases) :
                /\ PutInto(base.nodes, Base_add_node(base, node).nodes,
                           node.node_id, node)
                /\ Base_add_node(base, node)
                      = [base EXCEPT !.nodes = Base_add_node(base, node).nodes]
    /\ \A facility \in {NewFacility(facility_id, r) : facility_id \in 1..MaxUnits + 1, r \in 1..Len(recipes)},
          base \in HeldBases(bases) :
          /\ PutInto(base.facilities, Base_add_facility(base, facility).facilities,
                     facility.facility_id, facility)
          /\ Base_add_facility(base, facility)
                = [base EXCEPT !.facilities = Base_add_facility(base, facility).facilities]

(* base 1 holds one node, id 1, and it is the second object built: the     *)
(* Normal node added first under id 1 was replaced by a Pure one           *)
C18_Witness ==
    /\ DictHas(bases, 1)
    /\ Len(DictAt(bases, 1).nodes) = 1
    /\ HeldNodes(bases, unlinked_nodes)
          = {ResourceNode(2, 1, "Iron Ore", "Pure", 60)}
    /\ Len(DictAt(bases, 1).facilities) = 1

----------------------------------------------------------------------------
(* SpecPlanner: calculate_possible_recipes *)

(* every input item of recipe r is a key of net with a positive amount *)
AllAvailable(r, net) ==
    \A i \in 1..Len(recipes[r].inputs) :
        /\ recipes[r].inputs[i][1] \in DOMAIN net
        /\ net[recipes[r].inputs[i][1]] > 0

(* n is the minimum over r's inputs of floor(available / required) *)
IsMinimum(r, net, n) ==
    LET inputs == recipes[r].inputs
    IN  /\ \A i \in 1..Len(inputs) :
              inputs[i][2] # 0 /\ n <= floor_quotient(net[inputs[i][1]], inputs[i][2])
        /\ \E i \in 1..Len(inputs) : n = floor_quotient(net[inputs[i][1]], inputs[i][2])

(* C20: calculate_possible_recipes(net_production) contains recipe r with  *)
(* count n exactly when every input item of r is a key of net_production   *)
(* with a strictly positive amount and n = the minimum over r's inputs of  *)
(* floor(available / required) is at least 1; a recipe with a missing or   *)
(* non-positive input is omitted, every reported count is a positive       *)
(* finite integer, and each recipe is evaluated against the full net       *)
(* production independently of the other recipes.                          *)
C20_PossibleRecipes ==
    returned.name = "calculate_possible_recipes" =>
        LET net == returned.args[1]
            possible_recipes == returned.ret.possible_recipes
        IN  /\ returned.ret.raised = ""
            /\ \A i \in 1..Len(possible_recipes) :
                  ~possible_recipes[i].v.inf /\ possible_recipes[i].v.n >= 1
            /\ \A r \in 1..Len(recipes), n \in 0..(9000 \div (15 * CENTS)) :
                  (/\ DictHas(possible_recipes, recipes[r].name)
                   /\ DictAt(possible_recipes, recipes[r].name) = int(n))
                     <=> (AllAvailable(r, net) /\ IsMinimum(r, net, n) /\ n >= 1)
            /\ \A r \in 1..Len(recipes) :
                  ~AllAvailable(r, net) => ~DictHas(possible_recipes, recipes[r].name)

----------------------------------------------------------------------------
(* SpecPass: the aggregation calls step by step *)

(* the frame is inside its loops, and between two visits it holds what the *)
(* pass holds after k visits                                               *)
FrameInRange ==
    InShortagePass =>
        LET fr == returned.ret
        IN  /\ fr.k \in 0..Len(Consumption)
            /\ fr.j \in 0..Len(AllFacilities)
            /\ fr.inner => fr.k < Len(Consumption)
            /\ (~fr.inner /\ fr.st.raised = "") => fr.st = After(fr.k)
            /\ fr.st.raised # "" => fr.st = After(Len(Consumption))

(* what the finished loop returns is what the method returns *)
PassResult ==
    /\ returned.name = "calculate_production_rates"
          => returned.ret = calculate_production_rates(bases, unlinked_nodes, recipes)
    /\ returned.name = "identify_bottlenecks"
          => returned.ret = identify_bottlenecks(bases, unlinked_nodes, recipes)

(* every step takes the loops forward: k, then inner, then j grows *)
PassAdvances ==
    [][(InShortagePass /\ InShortagePass')
          => LET fr == returned.ret
                 nx == returned'.ret
             IN  \/ nx.st.raised # ""
                 \/ nx.k = fr.k + 1
                 \/ nx.k = fr.k /\ ~fr.inner /\ nx.inner
                 \/ nx.k = fr.k /\ fr.inner /\ nx.inner /\ nx.j = fr.j + 1]_vars

(* C21: every call of calculate_production_rates,                          *)
(* calculate_production_rates_for_base and identify_bottlenecks on a       *)
(* finite graph terminates: the shortage pass visits each consumed         *)
(* resource once and, for each short resource, each Converter once, with   *)
(* no recursion and no repetition until a fixed point.                     *)
C21_Terminates ==
    /\ []FrameInRange
    /\ []PassResult
    /\ PassAdvances
    /\ InShortagePass ~> (returned.name \in Callers)

(* calculate_production_rates has returned from a pass that cut the steel  *)
(* output of a foundry once for iron ore and once for coal                 *)
C21_Witness ==
    /\ returned.name = "calculate_production_rates"
    /\ returned.ret.raised = ""
    /\ Len(AllFacilities) = 2
    /\ Listed(returned.ret.limiting_factors, "Iron Ore", "Steel Ingot")
    /\ Listed(returned.ret.limiting_factors, "Coal", "Steel Ingot")

----------------------------------------------------------------------------
(* SpecStorage: the storage ledger of a base *)

StorageCalls == UNION {[1..n -> StorageItems \X StorageDeltas] : n \in 0..MaxCalls}

(* the sum of the quantities given for item in a sequence of calls *)
RECURSIVE SumFor(_, _)
SumFor(item, calls) ==
    IF calls = <<>> THEN 0
    ELSE (IF Head(calls)[1] = item THEN Head(calls)[2] ELSE 0) + SumFor(item, Tail(calls))

Updated(item, calls) == \E i \in 1..Len(calls) : calls[i][1] = item

(* C22: after any sequence of update_storage(item, delta) calls on a Site, *)
(* storage[item] equals the sum of all deltas given for that item (the     *)
(* first call for an item initialises it to its delta), items never        *)
(* updated are absent, and an update of one item leaves every other item's *)
(* quantity unchanged.  Stated on every ledger reached from the empty one: *)
(* any further calls add their deltas to what the ledger holds.            *)
C22_StorageIsSum ==
    \A base \in HeldBases(bases), calls \in StorageCalls :
        LET after == UpdateStorageAll(base, calls)
        IN  /\ after = [base EXCEPT !.storage = after.storage]
            /\ Len(after.storage) = Cardinality(DictKeys(after.storage))
            /\ \A item \in StorageItems :
                  IF DictHas(base.storage, item) \/ Updated(item, calls)
                  THEN /\ DictHas(after.storage, item)
                       /\ DictAt(after.storage, item)
                             = DictGet(base.storage, item, 0) + SumFor(item, calls)
                  ELSE ~DictHas(after.storage, item)

(* base 1 received 2, 2 and -1 iron ore and 1 coal; base 2 received nothing *)
C22_Witness ==
    /\ DictHas(bases, 1) /\ DictHas(bases, 2)
    /\ DictAsSet(DictAt(bases, 1).storage) = {<<"Iron Ore", 3>>, <<"Coal", 1>>}
    /\ DictAt(bases, 2).storage = <<>>

----------------------------------------------------------------------------
(* SpecLedger: aggregation and the storage ledgers *)

Ledgers ==
    { <<>>,
      <<[k |-> "Iron Ore", v |-> MaxStock]>>,
      <<[k |-> "Coal", v |-> 0 - 1], [k |-> "Iron Ore", v |-> 1]>> }

(* the graph with the ledger of each base replaced *)
WithLedgers(bs, ledgers) ==
    [i \in 1..Len(bs) |-> [bs[i] EXCEPT !.v.storage = ledgers[bs[i].k]]]

(* C23: the storage ledger never influences balancing: two graphs that are *)
(* equal except for the storage ledgers of their Sites return equal        *)
(* results from calculate_production_rates and from                        *)
(* calculate_production_rates_for_base for every base id.                  *)
C23_StorageNeverRead ==
    \A ledgers \in [DictKeys(bases) -> Ledgers] :
        LET other == WithLedgers(bases, ledgers)
        IN  /\ calculate_production_rates(other, unlinked_nodes, recipes)
                  = calculate_production_rates(bases, unlinked_nodes, recipes)
            /\ \A base_id \in 1..MaxBases + 1 :
                  calculate_production_rates_for_base(other, recipes, base_id)
                      = calculate_production_rates_for_base(bases, recipes, base_id)
            /\ returned.name = "calculate_production_rates"
                  => returned.ret = calculate_production_rates(other, unlinked_nodes, recipes)
            /\ returned.name = "calculate_production_rates_for_base"
                  => returned.ret = calculate_production_rates_for_base(other, recipes,
                                                                        returned.args[1])

(* base 1 stores iron ore and coal, and the totals are those of its node   *)
(* and its smelter alone                                                   *)
C23_Witness ==
    /\ returned.name = "calculate_production_rates"
    /\ DictHas(bases, 1)
    /\ DictAsSet(DictAt(bases, 1).storage) = {<<"Iron Ore", MaxStock>>, <<"Coal", MaxStock>>}
    /\ DictAsSet(returned.ret.production) = {<<"Iron Ore", 6000>>, <<"Iron Ingot", 3000>>}
    /\ DictAsSet(returned.ret.consumption) = {<<"Iron Ore", 3000>>}

----------------------------------------------------------------------------
(* SpecIds: the id counters *)

Counter(method) ==
    CASE method = "get_next_base_id" -> next_base_id
      [] method = "get_next_node_id" -> next_node_id
      [] method = "get_next_facility_id" -> next_facility_id

IdMethods == {"get_next_base_id", "get_next_node_id", "get_next_facility_id"}

(* a call of method returns what its counter held and leaves it one higher, *)
(* the other two counters as they were                                      *)
IdCall(method) ==
    /\ returned'.name = method
    /\ returned'.ret = Counter(method)
    /\ Counter(method)' = Counter(method) + 1
    /\ \A other \in IdMethods \ {method} : Counter(other)' = Counter(other)

(* C24: in any sequence of calls, get_next_base_id, get_next_node_id and   *)
(* get_next_facility_id each return strictly increasing integers starting  *)
(* at 1 (so one counter never returns the same id twice), and a call       *)
(* advances only its own counter.                                          *)
C24_IdsIncrease ==
    /\ [](\A method \in IdMethods : Counter(method) >= 1)
    /\ [](returned.name \in IdMethods
             => returned.ret >= 1 /\ returned.ret = Counter(returned.name) - 1)
    /\ [][\E method \in IdMethods : IdCall(method)]_vars
    /\ [][\A method \in IdMethods :
             (Counter(method) = 1 /\ returned'.name = method) => returned'.ret = 1]_vars

(* node ids 1 and 2 and facility id 1 were handed out, no base id yet *)
C24_Witness ==
    /\ returned.name = "get_next_node_id" /\ returned.ret = 2
    /\ next_base_id = 1
    /\ next_node_id = 3
    /\ next_facility_id = 2

(* C28: for a graph with exactly one Site, an empty unlinked pool and no   *)
(* resource whose consumption exceeds its production,                      *)
(* calculate_production_rates returns the same production and consumption  *)
(* maps as calculate_production_rates_for_base for that Site.              *)
C28_OneSiteAgrees ==
    (Len(bases) = 1 /\ unlinked_nodes = <<>> /\ ShortInTotals = {}) =>
        LET whole == calculate_production_rates(bases, unlinked_nodes, recipes)
            site == calculate_production_rates_for_base(bases, recipes, bases[1].k)
        IN  /\ whole.raised = ""
            /\ DictAsSet(whole.production) = DictAsSet(site.production)
            /\ DictAsSet(whole.consumption) = DictAsSet(site.consumption)
            /\ returned.name = "calculate_production_rates"
                  => /\ DictAsSet(returned.ret.production) = DictAsSet(site.production)
                     /\ DictAsSet(returned.ret.consumption) = DictAsSet(site.consumption)
            /\ (returned.name = "calculate_production_rates_for_base"
                   /\ returned.args = <<bases[1].k>>)
                  => /\ DictAsSet(returned.ret.production) = DictAsSet(whole.production)
                     /\ DictAsSet(returned.ret.consumption) = DictAsSet(whole.consumption)

(* the only base holds a node and a smelter, the pool is empty, and the    *)
(* base was asked for: 60 ore and 30 ingots produced, 30 ore consumed      *)
C28_Witness ==
    /\ Len(bases) = 1 /\ unlinked_nodes = <<>> /\ ShortInTotals = {}
    /\ returned.name = "calculate_production_rates_for_base"
    /\ returned.args = <<bases[1].k>>
    /\ DictAsSet(returned.ret.production) = {<<"Iron Ore", 6000>>, <<"Iron Ingot", 3000>>}
    /\ DictAsSet(returned.ret.consumption) = {<<"Iron Ore", 3000>>}

(* C26: calculate_production_rates and calculate_production_rates_for_base *)
(* are read-only and deterministic: a call changes no Site map, no         *)
(* unlinked-pool entry, no node clock speed or output rate and no          *)
(* Converter item list, clock speed or active flag, and two consecutive    *)
(* calls with no mutation in between return equal results.                 *)
Queries == {"calculate_production_rates", "calculate_production_rates_for_base"}

(* the answer held is the answer a call gives now: nothing was mutated     *)
(* since it was given                                                      *)
SameAgain ==
    /\ returned.name = "calculate_production_rates"
          => returned.ret = calculate_production_rates(bases, unlinked_nodes, recipes)
    /\ returned.name = "calculate_production_rates_for_base"
          => returned.ret = calculate_production_rates_for_base(bases, recipes, returned.args[1])

GraphKept ==
    UNCHANGED <<bases, unlinked_nodes, recipes, next_base_id, next_node_id, next_facility_id>>

C26_ReadOnly ==
    /\ [][returned'.name \in Queries => GraphKept]_vars
    /\ []SameAgain

(* the totals were asked for, for a base with a node and a foundry short   *)
(* of coal, and the graph is as it was                                     *)
C26_Witness ==
    /\ returned.name = "calculate_production_rates"
    /\ \E i \in 1..Len(bases) : bases[i].v.nodes # <<>> /\ bases[i].v.facilities # <<>>
    /\ Listed(returned.ret.limiting_factors, "Coal", "Steel Ingot")
    /\ SameAgain


----------------------------------------------------------------------------
(* C29: link_node_to_base with a node and a Site selected moves the node:  *)
(* afterwards it is in that Site's node map and no longer in the unlinked  *)
(* pool, every other node keeps its owner, and the raw production per      *)
(* resource is the same as before; when no node or no Site is selected the *)
(* pool and every Site are unchanged.                                      *)
OwnersOf(bs, un, o) ==
    {i \in 1..Len(bs) : \E j \in 1..Len(bs[i].v.nodes) : bs[i].v.nodes[j].v.obj = o}
        \cup {0 : j \in {j \in 1..Len(un) : un[j].v.obj = o}}

C29_LinkMovesNode ==
    [][/\ \A node_id \in 1..MaxNodes, base_id \in 1..MaxUnits :
              LinkNodeToBase(node_id, base_id) =>
                  /\ DictHas(DictAt(bases', base_id).nodes, node_id)
                  /\ DictAt(DictAt(bases', base_id).nodes, node_id) = DictAt(unlinked_nodes, node_id)
                  /\ ~DictHas(unlinked_nodes', node_id)
                  /\ \A o \in NodeObjs(bases, unlinked_nodes) \ {DictAt(unlinked_nodes, node_id).obj} :
                        OwnersOf(bases', unlinked_nodes', o) = OwnersOf(bases, unlinked_nodes, o)
                  /\ DictAsSet(RawProductionFloat(bases', unlinked_nodes'))
                        = DictAsSet(RawProductionFloat(bases, unlinked_nodes))
       /\ returned'.name = "link_node_to_base" =>
              /\ bases' = bases
              /\ unlinked_nodes' = unlinked_nodes]_vars


----------------------------------------------------------------------------
(* C30: delete_base(id) for an existing Site removes the Site together     *)
(* with all its nodes and facilities from every later aggregation, does    *)
(* not move its nodes into the unlinked pool, and leaves the unlinked pool *)
(* and every other Site unchanged.                                         *)
NodesOfSite(base_id) == {n.obj : n \in {DictAt(bases, base_id).nodes[j].v : j \in 1..Len(DictAt(bases, base_id).nodes)}}

FacilitiesOfSite(base_id) == {f.obj : f \in {DictAt(bases, base_id).facilities[j].v : j \in 1..Len(DictAt(bases, base_id).facilities)}}

Aggregated(nodes, objs) == AccumulateNodes(<<>>, SelectSeq(nodes, LAMBDA n : n.obj \notin objs))

C30_DeleteBaseCascades ==
    [][\A base_id \in 1..MaxBases :
          (DictHas(bases, base_id) /\ DeleteBase(base_id)) =>
              /\ bases' = Without(bases, base_id)
              /\ unlinked_nodes' = unlinked_nodes
              /\ NodesOfSite(base_id) \cap NodeObjs(bases', unlinked_nodes') = {}
              /\ FacilitiesOfSite(base_id) \cap FacilityObjs(bases') = {}
              /\ RawProduction(bases', unlinked_nodes')
                    = Aggregated(BaseNodes(bases) \o DictValues(unlinked_nodes), NodesOfSite(base_id))
              /\ calculate_production_rates_for_base(bases', recipes, base_id)
                    = [production |-> <<>>, consumption |-> <<>>]]_vars

====
